---- MODULE Spec2Model ----
(***************************************************************************)
(* State-machine model of the social post generator:                       *)
(*   - OpenAIClient.generate_text / get_statistics (src/src/openai_module.py)*)
(*   - SocialPostAgent.generate_post and its steps  (src/src/agent.py)      *)
(*   - the error taxonomy                            (src/src/exceptions.py)*)
(* Strings are sequences of Unicode code points, so that len(), strip(),    *)
(* slicing and rsplit() are computed as Python computes them.               *)
(***************************************************************************)
EXTENDS Integers, Sequences, FiniteSets, TLC

\* ------------------------------------------------------------------ bounds
\* number of top-level invocations (generate_text or generate_post) per run
MaxInvocations == 2
\* largest max_retries passed to a direct generate_text invocation
MaxRetriesArg == 3
\* number of generate_post invocations per run
MaxPosts == 1
\* the clock of the rate limiter is followed up to this reading
MaxTime == 4

\* --------------------------------------------------------- program constants
\* generate_text(..., max_retries: int = 3)
DEFAULT_MAX_RETRIES == 3
\* ' ' (U+0020), the separator of rsplit(' ', 1)
SPACE == 32
\* '.' (U+002E), the character of the "..." marker
DOT == 46

\* Python's None, for values that are otherwise strings
None == "None"
\* an Optional value that is otherwise a number or a record: <<>> is None
Absent == <<>>
Some(x) == <<x>>

\* ------------------------------------------------------------ string helpers
\* n copies of the character c
Rep(c, n) == [i \in 1..n |-> c]

\* the characters str.strip() removes (Python's str.isspace for these points)
Whitespace == {9, 10, 11, 12, 13, 28, 29, 30, 31, 32, 133, 160}

\* str.strip(): drop leading and trailing whitespace
Strip(s) ==
    IF \A i \in 1..Len(s) : s[i] \in Whitespace THEN <<>>
    ELSE LET lo == CHOOSE i \in 1..Len(s) :
                      s[i] \notin Whitespace /\ \A j \in 1..(i - 1) : s[j] \in Whitespace
             hi == CHOOSE i \in 1..Len(s) :
                      s[i] \notin Whitespace /\ \A j \in (i + 1)..Len(s) : s[j] \in Whitespace
         IN  SubSeq(s, lo, hi)

\* s[:n] for n >= 0
Take(s, n) == SubSeq(s, 1, IF n < Len(s) THEN n ELSE Len(s))

\* s.rsplit(' ', 1)[0]: the part before the last U+0020, or s when there is none
RSplitSpaceHead(s) ==
    IF \A i \in 1..Len(s) : s[i] # SPACE THEN s
    ELSE LET last == CHOOSE i \in 1..Len(s) :
                        s[i] = SPACE /\ \A j \in (i + 1)..Len(s) : s[j] # SPACE
         IN  SubSeq(s, 1, last - 1)

\* "..."
Ellipsis == <<DOT, DOT, DOT>>

\* ------------------------------------------------------- provider responses
\* completions the provider may return (message.content), built from runs
\* a word of n letters 'a' (U+0061)
Word(n) == Rep(97, n)
GenTexts ==
    { <<SPACE, 10, SPACE>>,
      <<SPACE, 10>> \o Word(3) \o <<SPACE>> \o Word(2) \o <<10, SPACE>>,
      Word(401),
      Word(200) \o <<SPACE>> \o Word(250),
      <<SPACE>> \o Word(398) \o <<SPACE>> \o Word(10),
      Word(400) \o <<SPACE>> \o Word(10),
      Word(2000) \o <<SPACE>> \o Word(2000) }

\* response.usage: absent, or an object with total_tokens
Usages == {Absent, Some(7)}

\* provider-supplied retry_after attribute of a rate-limit error
RetryAfters == {Absent, Some(30)}

\* exceptions that reach the final `except Exception` clause: an arbitrary
\* exception of the call, or one raised while reading the response
\* (choices empty, message.content is None)
UnexpectedErrors == {"AttributeError"}

VARIABLES
    total_requests,   \* self.total_requests
    total_tokens,     \* self.total_tokens
    failed_requests,  \* self.failed_requests
    gt_pc,            \* position of the generate_text invocation
    caller,           \* who invoked generate_text: "direct" or "pipeline"
    max_retries,      \* argument of the running invocation
    attempt,          \* loop variable of `for attempt in range(max_retries)`
    last_error,       \* local last_error
    outcomes,         \* history: outcome of every upstream call of the invocation
    response,         \* history: message.content of the successful response
    slept,            \* history: every time.sleep(delay) of the invocation
    gt_result,        \* what the invocation returned or raised
    base,             \* history: the counters when the invocation started
    n_ok,             \* history: invocations of generate_text that returned text
    n_fail,           \* history: invocations of generate_text that raised
    invocations,      \* history: top-level invocations started
    stats,            \* last value returned by get_statistics()
    settings,         \* the configuration the process was started with
    pc,               \* position of the generate_post invocation
    url,              \* argument url, then the normalized url
    style,            \* argument style, then the resolved style key
    max_length,       \* argument max_length
    post_max_length,  \* local post_max_length
    html,             \* local html
    text,             \* local text
    system_prompt,    \* local system_prompt (the style whose prompt it is)
    user_prompt,      \* local user_prompt
    generated,        \* local post as generate_text returned it
    gp_result,        \* what generate_post returned or raised
    steps,            \* history: the steps the invocation has run
    gp_base,          \* history: the counters when generate_post started
    posts,            \* history: generate_post invocations started
    threads,          \* generate_text invocations running in threads of one client
    requests,         \* the HTTP requests to POST /api/generate and where they are
    responses,        \* the response the handler of each request has built
    exception,        \* an exception that is being presented to a caller
    error_dict,       \* the mapping made of it for the API response
    now,              \* the reading of datetime.now(), in ticks
    max_requests,     \* rate_limiter.max_requests
    window_seconds,   \* rate_limiter.window_seconds, in ticks
    limiter_requests, \* rate_limiter.requests: key -> times of recorded requests
    grants,           \* history: key -> the times at which is_allowed said True
    verdict,          \* what the middleware did with the last request
    args,             \* the arguments the running generate_post was called with
    memo              \* history: what the first generate_post that returned
                      \* was given, what it sent and what it returned

client_vars == <<total_requests, total_tokens, failed_requests, gt_pc, caller,
                 max_retries, attempt, last_error, outcomes, response, slept,
                 gt_result, base, n_ok, n_fail, invocations, stats>>

pipe_vars == <<settings, pc, url, style, max_length, post_max_length, html, text,
               system_prompt, user_prompt, generated, gp_result, steps, gp_base,
               posts>>

thread_vars == <<threads>>

server_vars == <<requests, responses>>

error_vars == <<exception, error_dict>>

limiter_vars == <<now, max_requests, window_seconds, limiter_requests, grants, verdict>>

repeat_vars == <<args, memo>>

vars == <<client_vars, pipe_vars, thread_vars, server_vars, error_vars, limiter_vars, repeat_vars>>

NoResult == [kind |-> "none"]
\* one upstream call: how it ended and the exception it raised, if any
Outcome(kind, error) == [kind |-> kind, error |-> error]
\* an upstream call that returned a response, with the usage it reported
Answered(usage) == [kind |-> "ok", error |-> None, usage |-> usage]
Counters == [total_requests |-> total_requests,
             total_tokens |-> total_tokens,
             failed_requests |-> failed_requests]

\* ------------------------------------------------------------ error taxonomy
\* OpenAIError(reason, api_error, retry_count)
OpenAIError(reason, api_error, retry_count) ==
    [kind |-> "raise", type |-> "OpenAIError", code |-> "OPENAI_ERROR",
     reason |-> reason, retry_count |-> retry_count,
     api_error_type |-> api_error, retry_after |-> Absent]

\* RateLimitError(retry_after): an OpenAIError built with reason only, so
\* retry_count keeps its default 0 and no api_error is recorded; a truthy
\* retry_after is named in the reason
RateLimitError(retry_after) ==
    [kind |-> "raise", type |-> "RateLimitError", code |-> "RATE_LIMIT_ERROR",
     reason |-> IF retry_after \notin {Absent, Some(0)}
                THEN "rate limit, retry after <retry_after> seconds"
                ELSE "rate limit",
     retry_count |-> 0,
     api_error_type |-> None, retry_after |-> retry_after]

\* -------------------------------------------------------------- the client
ClientInit ==
    /\ total_requests = 0
    /\ total_tokens = 0
    /\ failed_requests = 0
    /\ gt_pc = "idle"
    /\ caller = None
    /\ max_retries = 0
    /\ attempt = 0
    /\ last_error = None
    /\ outcomes = <<>>
    /\ response = <<>>
    /\ slept = <<>>
    /\ gt_result = NoResult
    /\ base = Counters
    /\ n_ok = 0
    /\ n_fail = 0
    /\ invocations = 0
    /\ stats = Absent

\* entry of generate_text: messages are built, last_error = None, the loop starts
EnterGenerateText(who, mr) ==
    /\ gt_pc = "idle"
    /\ gt_pc' = "loop"
    /\ caller' = who
    /\ max_retries' = mr
    /\ attempt' = 0
    /\ last_error' = None
    /\ outcomes' = <<>>
    /\ response' = <<>>
    /\ slept' = <<>>
    /\ gt_result' = NoResult
    /\ base' = Counters
    /\ stats' = Absent
    /\ UNCHANGED <<total_requests, total_tokens, failed_requests, n_ok, n_fail>>

\* a direct call client.generate_text(prompt, system_prompt, max_retries = mr)
GenerateText(mr) ==
    /\ pc = "idle"
    /\ invocations < MaxInvocations
    /\ invocations' = invocations + 1
    /\ EnterGenerateText("direct", mr)

\* the loop body runs while attempt is in range(max_retries)
InLoop == gt_pc = "loop" /\ attempt < max_retries

\* the generate_text invocation ends by raising err
Raise(err) ==
    /\ gt_pc' = "raised"
    /\ gt_result' = err
    /\ n_fail' = n_fail + 1
    /\ UNCHANGED n_ok

\* RetryOrFail reporting the zero-based attempt as the retry count
RetryOrFail_zero_based_count(outcome, error, reason) ==
    /\ InLoop
    /\ outcomes' = Append(outcomes, Outcome(outcome, error))
    /\ last_error' = error
    /\ IF attempt < max_retries - 1
       THEN /\ slept' = Append(slept, 2 ^ attempt)
            /\ gt_pc' = "sleeping"
            /\ UNCHANGED <<failed_requests, gt_result, n_ok, n_fail>>
       ELSE /\ failed_requests' = failed_requests + 1
            /\ Raise(OpenAIError(reason, error, attempt))
            /\ UNCHANGED slept
    /\ UNCHANGED <<total_requests, total_tokens, caller, max_retries, attempt,
                   response, base, invocations, stats>>

\* RetryOrFail sleeping 2 ** (attempt + 1)
RetryOrFail_one_based_delay(outcome, error, reason) ==
    /\ InLoop
    /\ outcomes' = Append(outcomes, Outcome(outcome, error))
    /\ last_error' = error
    /\ IF attempt < max_retries - 1
       THEN /\ slept' = Append(slept, 2 ^ (attempt + 1))
            /\ gt_pc' = "sleeping"
            /\ UNCHANGED <<failed_requests, gt_result, n_ok, n_fail>>
       ELSE /\ failed_requests' = failed_requests + 1
            /\ Raise(OpenAIError(reason, error, attempt + 1))
            /\ UNCHANGED slept
    /\ UNCHANGED <<total_requests, total_tokens, caller, max_retries, attempt,
                   response, base, invocations, stats>>

\* the body shared by the three retrying except clauses: remember the error,
\* then enter time.sleep(2 ** attempt), or fail on the last attempt
RetryOrFail(outcome, error, reason) ==
    /\ InLoop
    /\ outcomes' = Append(outcomes, Outcome(outcome, error))
    /\ last_error' = error
    /\ IF attempt < max_retries - 1
       THEN /\ slept' = Append(slept, 2 ^ attempt)
            /\ gt_pc' = "sleeping"
            /\ UNCHANGED <<failed_requests, gt_result, n_ok, n_fail>>
       ELSE /\ failed_requests' = failed_requests + 1
            /\ Raise(OpenAIError(reason, error, attempt + 1))
            /\ UNCHANGED slept
    /\ UNCHANGED <<total_requests, total_tokens, caller, max_retries, attempt,
                   response, base, invocations, stats>>

\* time.sleep(delay) returns: the loop goes on with the next attempt
SleepEnds ==
    /\ gt_pc = "sleeping"
    /\ gt_pc' = "loop"
    /\ attempt' = attempt + 1
    /\ UNCHANGED <<total_requests, total_tokens, failed_requests, caller,
                   max_retries, last_error, outcomes, response, slept, gt_result,
                   base, n_ok, n_fail, invocations, stats>>

\* CallSucceeds returning the text without strip()
CallSucceeds_unstripped(content, usage) ==
    /\ InLoop
    /\ outcomes' = Append(outcomes, Answered(usage))
    /\ response' = content
    /\ total_requests' = total_requests + 1
    /\ total_tokens' = IF usage # Absent THEN total_tokens + usage[1] ELSE total_tokens
    /\ gt_pc' = "returned"
    /\ gt_result' = [kind |-> "return", text |-> content]
    /\ n_ok' = n_ok + 1
    /\ UNCHANGED <<failed_requests, caller, max_retries, attempt, last_error,
                   slept, base, n_fail, invocations, stats>>

\* CallSucceeds counting every upstream call of the invocation as a request
CallSucceeds_counts_calls(content, usage) ==
    /\ InLoop
    /\ outcomes' = Append(outcomes, Answered(usage))
    /\ response' = content
    /\ total_requests' = total_requests + attempt + 1
    /\ total_tokens' = IF usage # Absent THEN total_tokens + usage[1] ELSE total_tokens
    /\ gt_pc' = "returned"
    /\ gt_result' = [kind |-> "return", text |-> Strip(content)]
    /\ n_ok' = n_ok + 1
    /\ UNCHANGED <<failed_requests, caller, max_retries, attempt, last_error,
                   slept, base, n_fail, invocations, stats>>

\* the response was read: strip the text, update the statistics, return
CallSucceeds(content, usage) ==
    /\ InLoop
    /\ outcomes' = Append(outcomes, Answered(usage))
    /\ response' = content
    /\ total_requests' = total_requests + 1
    /\ total_tokens' = IF usage # Absent THEN total_tokens + usage[1] ELSE total_tokens
    /\ gt_pc' = "returned"
    /\ gt_result' = [kind |-> "return", text |-> Strip(content)]
    /\ n_ok' = n_ok + 1
    /\ UNCHANGED <<failed_requests, caller, max_retries, attempt, last_error,
                   slept, base, n_fail, invocations, stats>>

\* a rate limit handled like a timeout: retried with backoff
CallRateLimited_retried(retry_after) ==
    RetryOrFail("rate_limit", "RateLimitError", "rate limit")

\* except OpenAIRateLimitError: no retry
CallRateLimited(retry_after) ==
    /\ InLoop
    /\ outcomes' = Append(outcomes, Outcome("rate_limit", "RateLimitError"))
    /\ failed_requests' = failed_requests + 1
    /\ Raise(RateLimitError(retry_after))
    /\ UNCHANGED <<total_requests, total_tokens, caller, max_retries, attempt,
                   last_error, response, slept, base, invocations, stats>>

\* except APITimeoutError
CallTimesOut == RetryOrFail("timeout", "APITimeoutError", "timeout")

\* except APIConnectionError
CallConnectionFails == RetryOrFail("connection", "APIConnectionError", "connection")

\* a generic API error handled like a timeout: retried with backoff
CallAPIError_retried == RetryOrFail("api_error", "APIError", "api error")

\* except APIError: no retry
CallAPIError ==
    /\ InLoop
    /\ outcomes' = Append(outcomes, Outcome("api_error", "APIError"))
    /\ failed_requests' = failed_requests + 1
    /\ Raise(OpenAIError("api error", "APIError", attempt + 1))
    /\ UNCHANGED <<total_requests, total_tokens, caller, max_retries, attempt,
                   last_error, response, slept, base, invocations, stats>>

\* an exception of no listed class leaving generate_text as it is
CallUnexpected_propagates(error) ==
    /\ InLoop
    /\ outcomes' = Append(outcomes, Outcome("unexpected", error))
    /\ failed_requests' = failed_requests + 1
    /\ Raise([kind |-> "raise", type |-> error])
    /\ UNCHANGED <<total_requests, total_tokens, caller, max_retries, attempt,
                   last_error, response, slept, base, invocations, stats>>

\* except Exception
CallUnexpected(error) == RetryOrFail("unexpected", error, "unexpected")

\* the fall-through path raising without counting the failure
Exhausted_uncounted ==
    /\ gt_pc = "loop"
    /\ attempt >= max_retries
    /\ Raise(OpenAIError("exhausted", last_error, max_retries))
    /\ UNCHANGED <<total_requests, total_tokens, failed_requests, caller,
                   max_retries, attempt, last_error, outcomes, response, slept,
                   base, invocations, stats>>

\* after the loop: range(max_retries) is exhausted without return or raise
Exhausted ==
    /\ gt_pc = "loop"
    /\ attempt >= max_retries
    /\ failed_requests' = failed_requests + 1
    /\ Raise(OpenAIError("exhausted", last_error, max_retries))
    /\ UNCHANGED <<total_requests, total_tokens, caller, max_retries, attempt,
                   last_error, outcomes, response, slept, base, invocations,
                   stats>>

\* one upstream call and the handling of its outcome
Attempt ==
    \/ \E c \in GenTexts, u \in Usages : CallSucceeds(c, u)
    \/ \E r \in RetryAfters : CallRateLimited(r)
    \/ CallTimesOut
    \/ CallConnectionFails
    \/ CallAPIError
    \/ \E e \in UnexpectedErrors : CallUnexpected(e)

\* the frame of a finished generate_text invocation is dropped
LeaveGenerateText ==
    /\ gt_pc' = "idle"
    /\ caller' = None
    /\ max_retries' = 0
    /\ attempt' = 0
    /\ last_error' = None
    /\ outcomes' = <<>>
    /\ response' = <<>>
    /\ slept' = <<>>
    /\ gt_result' = NoResult
    /\ base' = Counters

\* the direct caller takes the result; the client is free for the next call
DirectCallEnds ==
    /\ gt_pc \in {"returned", "raised"}
    /\ caller = "direct"
    /\ LeaveGenerateText
    /\ UNCHANGED <<total_requests, total_tokens, failed_requests, n_ok, n_fail,
                   invocations, stats>>

\* round(a / b, 0) for b > 0 as Python rounds: to nearest, ties to even
RoundHalfEven(a, b) ==
    LET q == a \div b
        r == a - q * b
    IN  IF 2 * r < b THEN q
        ELSE IF 2 * r > b THEN q + 1
        ELSE IF q % 2 = 0 THEN q ELSE q + 1

\* get_statistics(): success_rate is kept in hundredths of a percent, which is
\* what round(success_rate, 2) leaves
get_statistics ==
    [total_requests |-> total_requests,
     failed_requests |-> failed_requests,
     success_rate_x100 |->
        IF total_requests > 0
        THEN RoundHalfEven((total_requests - failed_requests) * 10000, total_requests)
        ELSE 0,
     total_tokens |-> total_tokens]

\* a caller reads the statistics between invocations
GetStatistics ==
    /\ pc = "idle"
    /\ gt_pc = "idle"
    /\ stats = Absent
    /\ stats' = Some(get_statistics)
    /\ UNCHANGED <<total_requests, total_tokens, failed_requests, gt_pc, caller,
                   max_retries, attempt, last_error, outcomes, response, slept,
                   gt_result, base, n_ok, n_fail, invocations>>

\* =========================================================== the pipeline
\* ---------------------------------------------------------- configuration
\* settings.min_text_length (default)
MIN_TEXT_LENGTH == 100
\* settings.max_post_length (default)
MAX_POST_LENGTH_DEFAULT == 800
\* settings.max_page_size (default, 5 MB)
MAX_PAGE_SIZE == 5242880
\* the clamp range of generate_post
MIN_POST_LENGTH == 400
MAX_POST_LENGTH == 4000
\* max_text_length, the prompt budget of generate_post
MAX_TEXT_LENGTH == 3000

\* the settings the process runs with: the defaults of config.py
Settings == [max_post_length |-> MAX_POST_LENGTH_DEFAULT,
             min_text_length |-> MIN_TEXT_LENGTH,
             max_page_size |-> MAX_PAGE_SIZE]

\* ------------------------------------------------------------------ styles
\* STYLES: key -> id.  The keys are the Russian style names; "ru_<id>" stands
\* for the Russian word, which is no ASCII string.
STYLES ==
    [k \in {"ru_ironic", "ru_professional", "ru_motivational", "ru_humorous",
            "ru_educational", "ru_emotional"} |->
        CASE k = "ru_ironic" -> "ironic"
          [] k = "ru_professional" -> "professional"
          [] k = "ru_motivational" -> "motivational"
          [] k = "ru_humorous" -> "humorous"
          [] k = "ru_educational" -> "educational"
          [] k = "ru_emotional" -> "emotional"]

DEFAULT_STYLE == "ru_ironic"

\* the characters of the keys (the Russian style names) and of the ids
KeyChars(k) ==
    CASE k = "ru_ironic" -> <<1080, 1088, 1086, 1085, 1080, 1095, 1085, 1099, 1081>>
      [] k = "ru_professional" ->
            <<1087, 1088, 1086, 1092, 1077, 1089, 1089, 1080, 1086, 1085, 1072,
              1083, 1100, 1085, 1099, 1081>>
      [] k = "ru_motivational" ->
            <<1084, 1086, 1090, 1080, 1074, 1072, 1094, 1080, 1086, 1085, 1085,
              1099, 1081>>
      [] k = "ru_humorous" ->
            <<1102, 1084, 1086, 1088, 1080, 1089, 1090, 1080, 1095, 1077, 1089,
              1082, 1080, 1081>>
      [] k = "ru_educational" ->
            <<1086, 1073, 1088, 1072, 1079, 1086, 1074, 1072, 1090, 1077, 1083,
              1100, 1085, 1099, 1081>>
      [] k = "ru_emotional" ->
            <<1101, 1084, 1086, 1094, 1080, 1086, 1085, 1072, 1083, 1100, 1085,
              1099, 1081>>
IdChars(k) ==
    CASE k = "ru_ironic" -> <<105, 114, 111, 110, 105, 99>>
      [] k = "ru_professional" -> <<112, 114, 111, 102, 101, 115, 115, 105, 111, 110, 97, 108>>
      [] k = "ru_motivational" -> <<109, 111, 116, 105, 118, 97, 116, 105, 111, 110, 97, 108>>
      [] k = "ru_humorous" -> <<104, 117, 109, 111, 114, 111, 117, 115>>
      [] k = "ru_educational" -> <<101, 100, 117, 99, 97, 116, 105, 111, 110, 97, 108>>
      [] k = "ru_emotional" -> <<101, 109, 111, 116, 105, 111, 110, 97, 108>>

\* style arguments: absent, empty, blank, a key, a key in capitals and padded
\* (the Russian word, for which " RU_EMOTIONAL " stands), an id in another
\* case and padded, an unknown name
StyleInputs == {None, "", "  ", "ru_professional", " RU_EMOTIONAL ", " Emotional ",
                "sarcastic"}

\* the characters of a style argument
StyleChars(s) ==
    CASE s = "" -> <<>>
      [] s = "  " -> <<SPACE, SPACE>>
      [] s = " RU_EMOTIONAL " ->
            <<SPACE, SPACE, 1069, 1052, 1054, 1062, 1048, 1054, 1053, 1040, 1051,
              1068, 1053, 1067, 1049, 10>>
      [] s = " Emotional " -> <<SPACE, 69, 109, 111, 116, 105, 111, 110, 97, 108, SPACE>>
      [] s = "sarcastic" -> <<115, 97, 114, 99, 97, 115, 116, 105, 99>>
      [] s \in DOMAIN STYLES -> KeyChars(s)

\* str.lower() for Latin and Cyrillic letters
LowerChar(c) ==
    IF (c >= 65 /\ c <= 90) \/ (c >= 1040 /\ c <= 1071) THEN c + 32
    ELSE IF c >= 1024 /\ c <= 1039 THEN c + 80
    ELSE c
Lower(s) == [i \in 1..Len(s) |-> LowerChar(s[i])]

\* style.lower().strip()
LowerStrip(s) == Strip(Lower(StyleChars(s)))

\* validate_style matching keys only
validate_style_keys_only(s) ==
    IF s = None \/ StyleChars(s) = <<>> THEN DEFAULT_STYLE
    ELSE LET n == LowerStrip(s)
         IN  IF \E k \in DOMAIN STYLES : KeyChars(k) = n
             THEN CHOOSE k \in DOMAIN STYLES : KeyChars(k) = n
             ELSE DEFAULT_STYLE

\* validate_style(style)
validate_style(s) ==
    IF s = None \/ StyleChars(s) = <<>> THEN DEFAULT_STYLE
    ELSE LET n == LowerStrip(s)
         IN  IF \E k \in DOMAIN STYLES : KeyChars(k) = n
             THEN CHOOSE k \in DOMAIN STYLES : KeyChars(k) = n
             ELSE IF \E k \in DOMAIN STYLES : IdChars(k) = n
                  THEN CHOOSE k \in DOMAIN STYLES : IdChars(k) = n
                  ELSE DEFAULT_STYLE

\* -------------------------------------------------------------------- urls
\* url arguments: None, empty, blank, a padded and an exact https URL, an http
\* URL, a well-formed URL of another scheme, a name without scheme, a scheme
\* without host
Urls == {None, "", "  ", " https://example.com/a ", "https://example.com/a",
         "http://example.com/b", "ftp://example.com/f", "example.com", "https://"}

\* url.strip()
UrlStrip(u) ==
    CASE u = "  " -> ""
      [] u = " https://example.com/a " -> "https://example.com/a"
      [] OTHER -> u

\* validators.url(url) is truthy: a scheme, "://" and a host are there
ValidatorsUrl(u) ==
    u \in {"https://example.com/a", "http://example.com/b", "ftp://example.com/f"}

\* urlparse(url).scheme and .netloc
UrlScheme(u) ==
    CASE u \in {"https://example.com/a", "https://"} -> "https"
      [] u = "http://example.com/b" -> "http"
      [] u = "ftp://example.com/f" -> "ftp"
      [] OTHER -> ""
UrlNetloc(u) ==
    CASE u \in {"https://example.com/a", "http://example.com/b",
                "ftp://example.com/f"} -> "example.com"
      [] OTHER -> ""

\* URLValidationError(url, reason)
URLValidationError(u, reason) ==
    [kind |-> "raise", type |-> "URLValidationError", code |-> "VALIDATION_ERROR",
     details |-> [url |-> u, reason |-> reason]]

Returns(v) == [kind |-> "return", value |-> v]

\* validate_url without the check of the scheme
validate_url_any_scheme(u) ==
    IF u = None \/ UrlStrip(u) = "" THEN URLValidationError(u, "empty")
    ELSE LET s == UrlStrip(u)
         IN  IF ~ValidatorsUrl(s) THEN URLValidationError(s, "invalid format")
             ELSE IF UrlNetloc(s) = "" THEN URLValidationError(s, "no domain")
             ELSE Returns(s)

\* validate_url(url): the normalized url, or the error raised
validate_url(u) ==
    IF u = None \/ UrlStrip(u) = "" THEN URLValidationError(u, "empty")
    ELSE LET s == UrlStrip(u)
         IN  IF ~ValidatorsUrl(s) THEN URLValidationError(s, "invalid format")
             ELSE IF UrlScheme(s) \notin {"http", "https"}
                  THEN URLValidationError(s, "unsupported scheme")
             ELSE IF UrlNetloc(s) = "" THEN URLValidationError(s, "no domain")
             ELSE Returns(s)

\* ------------------------------------------------------------ length clamp
\* max_length arguments: absent or an integer
MaxLengths == {Absent, Some(-5), Some(0), Some(399), Some(400), Some(405),
               Some(4000), Some(4001)}

\* post_max_length = max_length or settings.max_post_length, then clamped
EffectiveMaxLength(m, configured) ==
    LET requested == IF m = Absent \/ m = Some(0) THEN configured ELSE m[1]
    IN  IF requested < MIN_POST_LENGTH THEN MIN_POST_LENGTH
        ELSE IF requested > MAX_POST_LENGTH THEN MAX_POST_LENGTH
        ELSE requested

\* "максимум " and " символов", the words around the length in the phrase
PhraseHead == <<1084, 1072, 1082, 1089, 1080, 1084, 1091, 1084, 32>>
PhraseTail == <<32, 1089, 1080, 1084, 1074, 1086, 1083, 1086, 1074>>

\* ------------------------------------------------------------------- fetch
\* bodies a page server may send
Pages == {"page_short", "page_min", "page_long", "page_quoting", "page_unparsable"}

\* what requests.get does: raises (exc), or returns a response with a status,
\* an optional content-length header (a string: numeric with a value, or not
\* numeric) and a body
NoHeader == [present |-> FALSE, numeric |-> FALSE, value |-> 0]
Header(n) == [present |-> TRUE, numeric |-> TRUE, value |-> n]
BadHeader == [present |-> TRUE, numeric |-> FALSE, value |-> 0]
Raised(e) == [exc |-> e, status |-> 0, content_length |-> NoHeader, body |-> None]
Response(st, cl, b) == [exc |-> None, status |-> st, content_length |-> cl, body |-> b]

FetchOutcomes ==
    {Raised(e) : e \in {"Timeout", "ConnectionError", "TooManyRedirects", "InvalidSchema"}}
    \cup {Response(200, NoHeader, p) : p \in Pages}
    \cup {Response(st, NoHeader, "page_min") : st \in {404, 403, 500, 503}}
    \cup {Response(200, cl, "page_min") :
            cl \in {Header(MAX_PAGE_SIZE), Header(MAX_PAGE_SIZE + 1), BadHeader}}
    \cup {Response(404, Header(MAX_PAGE_SIZE + 1), "page_min")}

\* URLFetchError(url, reason, status_code): status_code and reason enter the
\* details only when truthy
URLFetchError(u, reason, status_code) ==
    [kind |-> "raise", type |-> "URLFetchError", code |-> "URL_FETCH_ERROR",
     details |-> [url |-> u, reason |-> reason,
                  status_code |-> IF status_code = Some(0) THEN Absent ELSE status_code]]

\* bool(response): requests.Response.__bool__ is response.ok
ResponseTruthy(r) == r.status < 400

\* fetch_html rejecting a content-length equal to the maximum page size
fetch_html_size_inclusive(u, o) ==
    CASE o.exc = "Timeout" -> URLFetchError(u, "timeout", Absent)
      [] o.exc = "ConnectionError" -> URLFetchError(u, "connection failed", Absent)
      [] o.exc = "TooManyRedirects" -> URLFetchError(u, "too many redirects", Absent)
      [] o.exc \notin {None, "Timeout", "ConnectionError", "TooManyRedirects"} ->
            URLFetchError(u, "str(" \o o.exc \o ")", Absent)
      [] OTHER ->
            IF o.content_length.present /\ ~o.content_length.numeric
            THEN \* int(content_length) raises ValueError: except Exception
                 URLFetchError(u, "str(ValueError)", Absent)
            ELSE IF o.content_length.present
                    /\ o.content_length.value >= Settings.max_page_size
            THEN \* the URLFetchError raised in the try block is caught by
                 \* `except Exception` and raised again from its message
                 URLFetchError(u, "str(URLFetchError: page too large)", Absent)
            ELSE IF o.status >= 400 /\ o.status < 600
            THEN \* raise_for_status(): except HTTPError
                 LET status_code == IF ResponseTruthy(o) THEN Some(o.status) ELSE Absent
                 IN  URLFetchError(u,
                        CASE status_code = Some(404) -> "not found (404)"
                          [] status_code = Some(403) -> "forbidden (403)"
                          [] status_code = Some(500) -> "server error (500)"
                          [] status_code = Absent -> "HTTP error None"
                          [] OTHER -> "HTTP error " \o ToString(status_code[1]),
                        status_code)
            ELSE Returns(o.body)

\* fetch_html(url) when requests.get ends as o: the html, or the error raised
fetch_html(u, o) ==
    CASE o.exc = "Timeout" -> URLFetchError(u, "timeout", Absent)
      [] o.exc = "ConnectionError" -> URLFetchError(u, "connection failed", Absent)
      [] o.exc = "TooManyRedirects" -> URLFetchError(u, "too many redirects", Absent)
      [] o.exc \notin {None, "Timeout", "ConnectionError", "TooManyRedirects"} ->
            URLFetchError(u, "str(" \o o.exc \o ")", Absent)
      [] OTHER ->
            IF o.content_length.present /\ ~o.content_length.numeric
            THEN \* int(content_length) raises ValueError: except Exception
                 URLFetchError(u, "str(ValueError)", Absent)
            ELSE IF o.content_length.present
                    /\ o.content_length.value > Settings.max_page_size
            THEN \* the URLFetchError raised in the try block is caught by
                 \* `except Exception` and raised again from its message
                 URLFetchError(u, "str(URLFetchError: page too large)", Absent)
            ELSE IF o.status >= 400 /\ o.status < 600
            THEN \* raise_for_status(): except HTTPError
                 LET status_code == IF ResponseTruthy(o) THEN Some(o.status) ELSE Absent
                 IN  URLFetchError(u,
                        CASE status_code = Some(404) -> "not found (404)"
                          [] status_code = Some(403) -> "forbidden (403)"
                          [] status_code = Some(500) -> "server error (500)"
                          [] status_code = Absent -> "HTTP error None"
                          [] OTHER -> "HTTP error " \o ToString(status_code[1]),
                        status_code)
            ELSE Returns(o.body)

\* ----------------------------------------------------------------- extract
\* TextExtractionError(url, reason)
TextExtractionError(u, reason) ==
    [kind |-> "raise", type |-> "TextExtractionError", code |-> "TEXT_EXTRACTION_ERROR",
     details |-> [url |-> u, reason |-> reason]]

\* extract_text(html): the cleaned text of the page, or the error raised when
\* parsing raises
extract_text(h) ==
    CASE h = "page_short" -> Returns(Word(49) \o <<SPACE>> \o Word(49))
      [] h = "page_min" -> Returns(Word(49) \o <<SPACE>> \o Word(50))
      [] h = "page_long" -> Returns(Word(1500) \o <<SPACE>> \o Word(1500))
      [] h = "page_quoting" ->
            \* an article that holds the words "максимум 800 символов" itself
            Returns(Word(60) \o <<SPACE>> \o PhraseHead \o <<56, 48, 48>> \o PhraseTail
                        \o <<SPACE>> \o Word(60))
      [] OTHER -> TextExtractionError("unknown", "str(ParserError)")

\* validate_text_length rejecting a text of exactly the minimum length
validate_text_length_exclusive(t, u) ==
    IF Len(t) <= Settings.min_text_length
    THEN TextExtractionError(u, "too short")
    ELSE Returns(None)

\* validate_text_length(text, url): None, or the error raised
validate_text_length(t, u) ==
    IF Len(t) < Settings.min_text_length
    THEN TextExtractionError(u, "too short")
    ELSE Returns(None)

\* ------------------------------------------------------------------ prompts
\* STYLES[key]["user_prompt_template"] up to its "{text}" placeholder, which
\* ends every template; each is "... (<phrase>). ...\n\nТекст: "
TemplateHead(key) ==
    CASE key = "ru_ironic" ->
        <<1053, 1072, 32, 1086, 1089, 1085, 1086, 1074, 1077, 32, 1101, 1090,
        1086, 1075, 1086, 32, 1090, 1077, 1082, 1089, 1090, 1072, 32, 1085,
        1072, 1087, 1080, 1096, 1080, 32, 1082, 1086, 1088, 1086, 1090, 1082,
        1080, 1081, 32, 1080, 1088, 1086, 1085, 1080, 1095, 1085, 1099, 1081,
        32, 1087, 1086, 1089, 1090, 32, 1076, 1083, 1103, 32, 1089, 1086, 1094,
        1080, 1072, 1083, 1100, 1085, 1099, 1093, 32, 1089, 1077, 1090, 1077,
        1081, 32, 40, 1084, 1072, 1082, 1089, 1080, 1084, 1091, 1084, 32, 56,
        48, 48, 32, 1089, 1080, 1084, 1074, 1086, 1083, 1086, 1074, 41, 46, 32,
        1055, 1086, 1089, 1090, 32, 1076, 1086, 1083, 1078, 1077, 1085, 32,
        1073, 1099, 1090, 1100, 32, 1086, 1089, 1090, 1088, 1086, 1091, 1084,
        1085, 1099, 1084, 44, 32, 1080, 1085, 1090, 1077, 1088, 1077, 1089,
        1085, 1099, 1084, 32, 1080, 32, 1094, 1077, 1087, 1083, 1103, 1102,
        1097, 1080, 1084, 32, 1074, 1085, 1080, 1084, 1072, 1085, 1080, 1077,
        46, 10, 10, 1058, 1077, 1082, 1089, 1090, 58, 32>>
      [] key = "ru_professional" ->
        <<1053, 1072, 32, 1086, 1089, 1085, 1086, 1074, 1077, 32, 1101, 1090,
        1086, 1075, 1086, 32, 1090, 1077, 1082, 1089, 1090, 1072, 32, 1085,
        1072, 1087, 1080, 1096, 1080, 32, 1082, 1086, 1088, 1086, 1090, 1082,
        1080, 1081, 32, 1087, 1088, 1086, 1092, 1077, 1089, 1089, 1080, 1086,
        1085, 1072, 1083, 1100, 1085, 1099, 1081, 32, 1087, 1086, 1089, 1090,
        32, 1076, 1083, 1103, 32, 1089, 1086, 1094, 1080, 1072, 1083, 1100,
        1085, 1099, 1093, 32, 1089, 1077, 1090, 1077, 1081, 32, 40, 1084, 1072,
        1082, 1089, 1080, 1084, 1091, 1084, 32, 56, 48, 48, 32, 1089, 1080,
        1084, 1074, 1086, 1083, 1086, 1074, 41, 46, 32, 1055, 1086, 1089, 1090,
        32, 1076, 1086, 1083, 1078, 1077, 1085, 32, 1073, 1099, 1090, 1100, 32,
        1080, 1085, 1092, 1086, 1088, 1084, 1072, 1090, 1080, 1074, 1085, 1099,
        1084, 44, 32, 1089, 1090, 1088, 1091, 1082, 1090, 1091, 1088, 1080,
        1088, 1086, 1074, 1072, 1085, 1085, 1099, 1084, 32, 1080, 32, 1087,
        1086, 1083, 1077, 1079, 1085, 1099, 1084, 46, 10, 10, 1058, 1077, 1082,
        1089, 1090, 58, 32>>
      [] key = "ru_motivational" ->
        <<1053, 1072, 32, 1086, 1089, 1085, 1086, 1074, 1077, 32, 1101, 1090,
        1086, 1075, 1086, 32, 1090, 1077, 1082, 1089, 1090, 1072, 32, 1085,
        1072, 1087, 1080, 1096, 1080, 32, 1082, 1086, 1088, 1086, 1090, 1082,
        1080, 1081, 32, 1084, 1086, 1090, 1080, 1074, 1072, 1094, 1080, 1086,
        1085, 1085, 1099, 1081, 32, 1087, 1086, 1089, 1090, 32, 1076, 1083,
        1103, 32, 1089, 1086, 1094, 1080, 1072, 1083, 1100, 1085, 1099, 1093,
        32, 1089, 1077, 1090, 1077, 1081, 32, 40, 1084, 1072, 1082, 1089, 1080,
        1084, 1091, 1084, 32, 56, 48, 48, 32, 1089, 1080, 1084, 1074, 1086,
        1083, 1086, 1074, 41, 46, 32, 1055, 1086, 1089, 1090, 32, 1076, 1086,
        1083, 1078, 1077, 1085, 32, 1074, 1076, 1086, 1093, 1085, 1086, 1074,
        1083, 1103, 1090, 1100, 44, 32, 1084, 1086, 1090, 1080, 1074, 1080,
        1088, 1086, 1074, 1072, 1090, 1100, 32, 1080, 32, 1087, 1086, 1073,
        1091, 1078, 1076, 1072, 1090, 1100, 32, 1082, 32, 1076, 1077, 1081,
        1089, 1090, 1074, 1080, 1102, 46, 10, 10, 1058, 1077, 1082, 1089, 1090,
        58, 32>>
      [] key = "ru_humorous" ->
        <<1053, 1072, 32, 1086, 1089, 1085, 1086, 1074, 1077, 32, 1101, 1090,
        1086, 1075, 1086, 32, 1090, 1077, 1082, 1089, 1090, 1072, 32, 1085,
        1072, 1087, 1080, 1096, 1080, 32, 1082, 1086, 1088, 1086, 1090, 1082,
        1080, 1081, 32, 1102, 1084, 1086, 1088, 1080, 1089, 1090, 1080, 1095,
        1077, 1089, 1082, 1080, 1081, 32, 1087, 1086, 1089, 1090, 32, 1076,
        1083, 1103, 32, 1089, 1086, 1094, 1080, 1072, 1083, 1100, 1085, 1099,
        1093, 32, 1089, 1077, 1090, 1077, 1081, 32, 40, 1084, 1072, 1082, 1089,
        1080, 1084, 1091, 1084, 32, 56, 48, 48, 32, 1089, 1080, 1084, 1074,
        1086, 1083, 1086, 1074, 41, 46, 32, 1055, 1086, 1089, 1090, 32, 1076,
        1086, 1083, 1078, 1077, 1085, 32, 1073, 1099, 1090, 1100, 32, 1089,
        1084, 1077, 1096, 1085, 1099, 1084, 44, 32, 1083, 1077, 1075, 1082,
        1080, 1084, 32, 1080, 32, 1087, 1086, 1076, 1085, 1080, 1084, 1072,
        1102, 1097, 1080, 1084, 32, 1085, 1072, 1089, 1090, 1088, 1086, 1077,
        1085, 1080, 1077, 46, 10, 10, 1058, 1077, 1082, 1089, 1090, 58, 32>>
      [] key = "ru_educational" ->
        <<1053, 1072, 32, 1086, 1089, 1085, 1086, 1074, 1077, 32, 1101, 1090,
        1086, 1075, 1086, 32, 1090, 1077, 1082, 1089, 1090, 1072, 32, 1085,
        1072, 1087, 1080, 1096, 1080, 32, 1082, 1086, 1088, 1086, 1090, 1082,
        1080, 1081, 32, 1086, 1073, 1088, 1072, 1079, 1086, 1074, 1072, 1090,
        1077, 1083, 1100, 1085, 1099, 1081, 32, 1087, 1086, 1089, 1090, 32,
        1076, 1083, 1103, 32, 1089, 1086, 1094, 1080, 1072, 1083, 1100, 1085,
        1099, 1093, 32, 1089, 1077, 1090, 1077, 1081, 32, 40, 1084, 1072, 1082,
        1089, 1080, 1084, 1091, 1084, 32, 56, 48, 48, 32, 1089, 1080, 1084,
        1074, 1086, 1083, 1086, 1074, 41, 46, 32, 1055, 1086, 1089, 1090, 32,
        1076, 1086, 1083, 1078, 1077, 1085, 32, 1091, 1095, 1080, 1090, 1100,
        44, 32, 1086, 1073, 1098, 1103, 1089, 1085, 1103, 1090, 1100, 32, 1080,
        32, 1076, 1072, 1074, 1072, 1090, 1100, 32, 1087, 1086, 1083, 1077,
        1079, 1085, 1091, 1102, 32, 1080, 1085, 1092, 1086, 1088, 1084, 1072,
        1094, 1080, 1102, 46, 10, 10, 1058, 1077, 1082, 1089, 1090, 58, 32>>
      [] key = "ru_emotional" ->
        <<1053, 1072, 32, 1086, 1089, 1085, 1086, 1074, 1077, 32, 1101, 1090,
        1086, 1075, 1086, 32, 1090, 1077, 1082, 1089, 1090, 1072, 32, 1085,
        1072, 1087, 1080, 1096, 1080, 32, 1082, 1086, 1088, 1086, 1090, 1082,
        1080, 1081, 32, 1101, 1084, 1086, 1094, 1080, 1086, 1085, 1072, 1083,
        1100, 1085, 1099, 1081, 32, 1087, 1086, 1089, 1090, 32, 1076, 1083,
        1103, 32, 1089, 1086, 1094, 1080, 1072, 1083, 1100, 1085, 1099, 1093,
        32, 1089, 1077, 1090, 1077, 1081, 32, 40, 1084, 1072, 1082, 1089, 1080,
        1084, 1091, 1084, 32, 56, 48, 48, 32, 1089, 1080, 1084, 1074, 1086,
        1083, 1086, 1074, 41, 46, 32, 1055, 1086, 1089, 1090, 32, 1076, 1086,
        1083, 1078, 1077, 1085, 32, 1090, 1088, 1086, 1075, 1072, 1090, 1100,
        44, 32, 1074, 1099, 1079, 1099, 1074, 1072, 1090, 1100, 32, 1095, 1091,
        1074, 1089, 1090, 1074, 1072, 32, 1080, 32, 1088, 1077, 1079, 1086,
        1085, 1080, 1088, 1086, 1074, 1072, 1090, 1100, 32, 1089, 32, 1095,
        1080, 1090, 1072, 1090, 1077, 1083, 1077, 1084, 46, 10, 10, 1058, 1077,
        1082, 1089, 1090, 58, 32>>

\* str(n) for n >= 0
RECURSIVE Digits(_)
Digits(n) == IF n < 10 THEN <<48 + n>> ELSE Digits(n \div 10) \o <<48 + (n % 10)>>

\* "максимум <n> символов"
Phrase(n) == PhraseHead \o Digits(n) \o PhraseTail

\* s.replace(old, new) from position start on: every occurrence, left to right
RECURSIVE ReplaceFrom(_, _, _, _)
ReplaceFrom(s, old, new, start) ==
    LET hits == {i \in start..(Len(s) - Len(old) + 1) :
                    \A j \in 1..Len(old) : s[i + j - 1] = old[j]}
    IN  IF hits = {} THEN SubSeq(s, start, Len(s))
        ELSE LET m == CHOOSE i \in hits : \A j \in hits : i <= j
             IN  SubSeq(s, start, m - 1) \o new
                    \o ReplaceFrom(s, old, new, m + Len(old))
Replace(s, old, new) == ReplaceFrom(s, old, new, 1)

\* step 6: the text is cut to the prompt budget
BudgetText(t) ==
    IF Len(t) > MAX_TEXT_LENGTH THEN Take(t, MAX_TEXT_LENGTH) \o Ellipsis ELSE t

\* a user prompt that numbers the requests of the client
UserPrompt_numbered(key, t, pml) ==
    Replace(TemplateHead(key) \o t, Phrase(800), Phrase(pml)) \o Digits(total_requests)

\* step 7: template.format(text = text), then the length phrase is rewritten;
UserPrompt(key, t, pml) ==
    \* the replaced phrase is the literal "максимум 800 символов"
    Replace(TemplateHead(key) \o t, Phrase(800), Phrase(pml))

\* PostGenerationError(reason, url, style)
PostGenerationError(reason, u, s) ==
    [kind |-> "raise", type |-> "PostGenerationError", code |-> "POST_GENERATION_ERROR",
     details |-> [reason |-> reason, url |-> u, style |-> s]]

\* step 9: strip, and cut at the last space of the first post_max_length chars
EnforceLength(p, pml) ==
    LET q == Strip(p)
    IN  IF Len(q) > pml
        THEN RSplitSpaceHead(Take(q, pml)) \o Ellipsis
        ELSE q

\* ------------------------------------------------------------ generate_post
\* the calls of generate_post(url, style, max_length): every url, every style
\* and every max_length, each with the other arguments at a usual value
GoodUrl == " https://example.com/a "
PostInputs ==
    {<<u, None, Absent>> : u \in Urls}
    \cup {<<GoodUrl, s, Absent>> : s \in StyleInputs}
    \cup {<<GoodUrl, None, m>> : m \in MaxLengths}

PipeInit ==
    /\ settings = Settings
    /\ pc = "idle"
    /\ url = None
    /\ style = None
    /\ max_length = Absent
    /\ post_max_length = 0
    /\ html = None
    /\ text = <<>>
    /\ system_prompt = None
    /\ user_prompt = <<>>
    /\ generated = <<>>
    /\ gp_result = NoResult
    /\ steps = <<>>
    /\ gp_base = Counters
    /\ posts = 0

\* the locals of a generate_post invocation that has not assigned them yet
FreshLocals ==
    /\ post_max_length' = 0
    /\ html' = None
    /\ text' = <<>>
    /\ system_prompt' = None
    /\ user_prompt' = <<>>
    /\ generated' = <<>>

\* entry of generate_post(url, style, max_length)
EnterGeneratePost(u, s, m) ==
    /\ pc = "idle"
    /\ gt_pc = "idle"
    /\ pc' = "validate_url"
    /\ url' = u
    /\ style' = s
    /\ max_length' = m
    /\ FreshLocals
    /\ gp_result' = NoResult
    /\ steps' = <<>>
    /\ gp_base' = Counters
    /\ UNCHANGED <<settings, client_vars>>

\* a direct call agent.generate_post(url, style, max_length)
GeneratePost(u, s, m) ==
    /\ posts < MaxPosts
    /\ posts' = posts + 1
    /\ EnterGeneratePost(u, s, m)

\* history entry: a step of generate_post ran and returned or raised r
Step(name, r) == [step |-> name, failed |-> r.kind = "raise"]

\* the invocation ends by raising err: nothing is returned
Fail(err) ==
    /\ pc' = "failed"
    /\ gp_result' = err

\* 1. url = self.validate_url(url)
ValidateUrl ==
    /\ pc = "validate_url"
    /\ LET r == validate_url(url)
       IN  /\ steps' = Append(steps, Step("validate_url", r))
           /\ IF r.kind = "raise"
              THEN Fail(r) /\ UNCHANGED url
              ELSE pc' = "validate_style" /\ url' = r.value /\ UNCHANGED gp_result
    /\ UNCHANGED <<settings, style, max_length, post_max_length, html, text,
                   system_prompt, user_prompt, generated, gp_base, posts,
                   client_vars>>

\* 2. style = self.validate_style(style)
ValidateStyle ==
    /\ pc = "validate_style"
    /\ steps' = Append(steps, Step("validate_style", Returns(None)))
    /\ style' = validate_style(style)
    /\ pc' = "clamp"
    /\ UNCHANGED <<settings, url, max_length, post_max_length, html, text,
                   system_prompt, user_prompt, generated, gp_result, gp_base,
                   posts, client_vars>>

\* 3. post_max_length is taken from max_length or the settings and clamped
ClampLength ==
    /\ pc = "clamp"
    /\ steps' = Append(steps, Step("clamp", Returns(None)))
    /\ post_max_length' = EffectiveMaxLength(max_length, settings.max_post_length)
    /\ pc' = "fetch_html"
    /\ UNCHANGED <<settings, url, style, max_length, html, text, system_prompt,
                   user_prompt, generated, gp_result, gp_base, posts, client_vars>>

\* FetchHtml going on to the extraction after a failed fetch
FetchHtml_continues(o) ==
    /\ pc = "fetch_html"
    /\ LET r == fetch_html(url, o)
       IN  /\ steps' = Append(steps, Step("fetch_html", r))
           /\ html' = IF r.kind = "raise" THEN "" ELSE r.value
    /\ pc' = "extract_text"
    /\ UNCHANGED <<settings, url, style, max_length, post_max_length, text,
                   system_prompt, user_prompt, generated, gp_result, gp_base,
                   posts, client_vars>>

\* FetchHtml trying the request again after a failure
FetchHtml_retries(o) ==
    /\ pc = "fetch_html"
    /\ Len(steps) < 5
    /\ LET r == fetch_html(url, o)
       IN  /\ steps' = Append(steps, Step("fetch_html", r))
           /\ IF r.kind = "raise"
              THEN IF Len(steps) < 4
                   THEN UNCHANGED <<pc, gp_result, html>>
                   ELSE Fail(r) /\ UNCHANGED html
              ELSE pc' = "extract_text" /\ html' = r.value /\ UNCHANGED gp_result
    /\ UNCHANGED <<settings, url, style, max_length, post_max_length, text,
                   system_prompt, user_prompt, generated, gp_base, posts,
                   client_vars>>

\* 3. html = self.fetch_html(url): one requests.get, ending as o
FetchHtml(o) ==
    /\ pc = "fetch_html"
    /\ LET r == fetch_html(url, o)
       IN  /\ steps' = Append(steps, Step("fetch_html", r))
           /\ IF r.kind = "raise"
              THEN Fail(r) /\ UNCHANGED html
              ELSE pc' = "extract_text" /\ html' = r.value /\ UNCHANGED gp_result
    /\ UNCHANGED <<settings, url, style, max_length, post_max_length, text,
                   system_prompt, user_prompt, generated, gp_base, posts,
                   client_vars>>

\* 4. text = self.extract_text(html)
ExtractText ==
    /\ pc = "extract_text"
    /\ LET r == extract_text(html)
       IN  /\ steps' = Append(steps, Step("extract_text", r))
           /\ IF r.kind = "raise"
              THEN Fail(r) /\ UNCHANGED text
              ELSE pc' = "validate_text_length" /\ text' = r.value /\ UNCHANGED gp_result
    /\ UNCHANGED <<settings, url, style, max_length, post_max_length, html,
                   system_prompt, user_prompt, generated, gp_base, posts,
                   client_vars>>

\* 5. self.validate_text_length(text, url)
ValidateTextLength ==
    /\ pc = "validate_text_length"
    /\ LET r == validate_text_length(text, url)
       IN  /\ steps' = Append(steps, Step("validate_text_length", r))
           /\ IF r.kind = "raise"
              THEN Fail(r)
              ELSE pc' = "render_prompts" /\ UNCHANGED gp_result
    /\ UNCHANGED <<settings, url, style, max_length, post_max_length, html, text,
                   system_prompt, user_prompt, generated, gp_base, posts,
                   client_vars>>

\* 6-7. the text is cut to the budget and the prompts are rendered
RenderPrompts ==
    /\ pc = "render_prompts"
    /\ steps' = Append(steps, Step("render_prompts", Returns(None)))
    /\ text' = BudgetText(text)
    /\ system_prompt' = STYLES[style]
    /\ user_prompt' = UserPrompt(style, BudgetText(text), post_max_length)
    /\ pc' = "generate_text"
    /\ UNCHANGED <<settings, url, style, max_length, post_max_length, html,
                   generated, gp_result, gp_base, posts, client_vars>>

\* 8. self.openai_client.generate_text(prompt, system_prompt) is entered
CallGenerateText ==
    /\ pc = "generate_text"
    /\ steps' = Append(steps, Step("generate_text", Returns(None)))
    /\ pc' = "generating"
    /\ EnterGenerateText("pipeline", DEFAULT_MAX_RETRIES)
    /\ UNCHANGED <<settings, url, style, max_length, post_max_length, html, text,
                   system_prompt, user_prompt, generated, gp_result, gp_base,
                   posts, invocations>>

\* 8. generate_text returned: post = the text
GenerateTextReturns ==
    /\ pc = "generating"
    /\ gt_pc = "returned"
    /\ caller = "pipeline"
    /\ generated' = gt_result.text
    /\ pc' = "enforce_length"
    /\ LeaveGenerateText
    /\ UNCHANGED <<settings, url, style, max_length, post_max_length, html, text,
                   system_prompt, user_prompt, gp_result, steps, gp_base, posts,
                   total_requests, total_tokens, failed_requests, n_ok, n_fail,
                   invocations, stats>>

\* str(e) of an error raised by generate_text: its technical message
StrOfOpenAIError(e) ==
    "OpenAI API error: " \o e.reason \o
        (IF e.api_error_type # None THEN " (" \o e.api_error_type \o ")" ELSE "")

\* GenerateTextRaises letting the client's error through as it is
GenerateTextRaises_unwrapped ==
    /\ pc = "generating"
    /\ gt_pc = "raised"
    /\ caller = "pipeline"
    /\ Fail(gt_result)
    /\ steps' = [steps EXCEPT ![Len(steps)].failed = TRUE]
    /\ LeaveGenerateText
    /\ UNCHANGED <<settings, url, style, max_length, post_max_length, html, text,
                   system_prompt, user_prompt, generated, gp_base, posts,
                   total_requests, total_tokens, failed_requests, n_ok, n_fail,
                   invocations, stats>>

\* 8. generate_text raised: except Exception wraps it as PostGenerationError
GenerateTextRaises ==
    /\ pc = "generating"
    /\ gt_pc = "raised"
    /\ caller = "pipeline"
    /\ Fail(PostGenerationError(StrOfOpenAIError(gt_result), url, style))
    /\ steps' = [steps EXCEPT ![Len(steps)].failed = TRUE]
    /\ LeaveGenerateText
    /\ UNCHANGED <<settings, url, style, max_length, post_max_length, html, text,
                   system_prompt, user_prompt, generated, gp_base, posts,
                   total_requests, total_tokens, failed_requests, n_ok, n_fail,
                   invocations, stats>>

\* 9-10. the post is stripped, cut to post_max_length and returned
EnforceAndReturn ==
    /\ pc = "enforce_length"
    /\ steps' = Append(steps, Step("enforce_length", Returns(None)))
    /\ gp_result' = [kind |-> "return", post |-> EnforceLength(generated, post_max_length)]
    /\ pc' = "returned"
    /\ UNCHANGED <<settings, url, style, max_length, post_max_length, html, text,
                   system_prompt, user_prompt, generated, gp_base, posts,
                   client_vars>>

\* the caller of generate_post takes the post or the error
PostCallEnds ==
    /\ pc \in {"returned", "failed"}
    /\ pc' = "idle"
    /\ url' = None
    /\ style' = None
    /\ max_length' = Absent
    /\ FreshLocals
    /\ gp_result' = NoResult
    /\ steps' = <<>>
    /\ gp_base' = Counters
    /\ UNCHANGED <<settings, posts, client_vars>>

\* ---------------------------------------------------- repeated invocations
\* calls, pages and completions of invocations that follow one another: a
\* usual call, a call with another style and length, a call that fails
RepeatInputs ==
    {<<GoodUrl, None, Absent>>, <<GoodUrl, " Emotional ", Some(405)>>,
     <<"ftp://example.com/f", None, Absent>>}
RepeatOutcomes ==
    {Response(200, NoHeader, "page_min"), Response(200, NoHeader, "page_quoting"),
     Raised("Timeout")}
RepeatTexts ==
    {<<SPACE, 10>> \o Word(3) \o <<SPACE>> \o Word(2) \o <<10, SPACE>>,
     Word(400) \o <<SPACE>> \o Word(10)}

RepeatInit ==
    /\ args = Absent
    /\ memo = Absent

\* what a generate_post that returned was given, sent and returned
Observation ==
    [args |-> args[1], html |-> html, generated |-> generated,
     system_prompt |-> system_prompt, user_prompt |-> user_prompt,
     post |-> gp_result.post]

\* a call agent.generate_post(url, style, max_length) that follows others
Invoke(u, s, m) ==
    /\ posts < MaxPosts + 1
    /\ posts' = posts + 1
    /\ EnterGeneratePost(u, s, m)
    /\ args' = Some(<<u, s, m>>)
    /\ UNCHANGED memo

\* the caller takes the post or the error
InvocationEnds ==
    /\ PostCallEnds
    /\ args' = Absent
    /\ memo' = IF pc = "returned" /\ memo = Absent THEN Some(Observation) ELSE memo

\* ====================================================== error presentation
\* ConfigurationError(parameter, reason)
ConfigurationError(parameter, reason) ==
    [kind |-> "raise", type |-> "ConfigurationError", code |-> "CONFIGURATION_ERROR",
     details |-> [parameter |-> parameter, reason |-> reason]]

\* an exception that is no SocialPostGeneratorException
ForeignException(type, message) ==
    [kind |-> "raise", type |-> type, message |-> message]

\* the classes of the taxonomy: the subclasses of SocialPostGeneratorException
TaxonomyTypes ==
    {"URLValidationError", "URLFetchError", "TextExtractionError", "OpenAIError",
     "RateLimitError", "PostGenerationError", "ConfigurationError"}

\* isinstance(exception, SocialPostGeneratorException)
IsTaxonomy(e) == e.type \in TaxonomyTypes

\* self.user_message: the text URLValidationError passes to the base class,
\* else the class's _default_user_message(); a name stands for each text
UserMessage(e) ==
    CASE e.type = "URLValidationError" -> "user message: give a full url"
      [] e.type = "URLFetchError" -> "user message: page could not be loaded"
      [] e.type = "TextExtractionError" -> "user message: not enough text"
      [] e.type = "OpenAIError" -> "user message: generation trouble"
      [] e.type = "RateLimitError" -> "user message: rate limit, wait"
      [] e.type = "PostGenerationError" -> "user message: post not generated"
      [] e.type = "ConfigurationError" -> "user message: configuration error"

\* a mapping without keys, and the mapping {k: v} when the string v is truthy
EmptyDict == [k \in {} |-> None]
IfTruthy(k, v) == IF v \in {None, ""} THEN EmptyDict ELSE k :> v

\* self.details, with the keys each constructor puts into it
Details(e) ==
    CASE e.type \in {"URLValidationError", "TextExtractionError"} ->
            [url |-> e.details.url, reason |-> e.details.reason]
      [] e.type = "URLFetchError" ->
            [url |-> e.details.url]
                @@ (IF e.details.status_code = Absent THEN EmptyDict
                    ELSE "status_code" :> e.details.status_code[1])
                @@ IfTruthy("reason", e.details.reason)
      [] e.type = "OpenAIError" ->
            [reason |-> e.reason, retry_count |-> e.retry_count]
                @@ (IF e.api_error_type = None THEN EmptyDict
                    ELSE [api_error_type |-> e.api_error_type,
                          api_error_message |-> "str(" \o e.api_error_type \o ")"])
      [] e.type = "RateLimitError" ->
            [reason |-> e.reason, retry_count |-> e.retry_count]
                @@ (IF e.retry_after \in {Absent, Some(0)} THEN EmptyDict
                    ELSE "retry_after" :> e.retry_after[1])
      [] e.type = "PostGenerationError" ->
            [reason |-> e.details.reason]
                @@ IfTruthy("url", e.details.url)
                @@ IfTruthy("style", e.details.style)
      [] e.type = "ConfigurationError" ->
            [parameter |-> e.details.parameter, reason |-> e.details.reason]

\* {**a, **b}: the keys of both, b's value where both have the key
Spread(a, b) == b @@ a

\* to_dict reporting the base class's code for every class
to_dict_base_code(e) ==
    Spread([success |-> FALSE, error |-> UserMessage(e), error_code |-> "INTERNAL_ERROR"],
           Details(e))

\* to_dict(): {"success": False, "error": ..., "error_code": ..., **details}
to_dict(e) ==
    Spread([success |-> FALSE, error |-> UserMessage(e), error_code |-> e.code],
           Details(e))

\* the mapping handle_exception returns for an unexpected exception
InternalErrorDict ==
    [success |-> FALSE, error |-> "user message: unexpected error",
     error_code |-> "INTERNAL_ERROR"]

\* handle_exception putting the exception's text into the mapping
handle_exception_with_text(e) ==
    IF IsTaxonomy(e) THEN to_dict(e)
    ELSE InternalErrorDict @@ [detail |-> e.type \o ": " \o e.message]

\* handle_exception(exception)
handle_exception(e) ==
    IF IsTaxonomy(e) THEN to_dict(e) ELSE InternalErrorDict

\* exceptions presented to a caller: instances of every class of the
\* taxonomy, with the optional arguments given and not given, and exceptions
\* of other types with texts that hold internal detail
Exceptions ==
    {URLValidationError(u, r) : u \in Urls, r \in {None, "empty", "invalid format"}}
    \cup {URLFetchError(u, r, st) : u \in {"https://example.com/a"},
                                   r \in {None, "", "timeout"},
                                   st \in {Absent, Some(0), Some(404), Some(500)}}
    \cup {TextExtractionError(u, r) : u \in {"unknown", "https://example.com/a"},
                                     r \in {None, "too short"}}
    \cup {OpenAIError(r, a, n) : r \in {"timeout", "exhausted"},
                                a \in {None, "APITimeoutError"}, n \in 0..3}
    \cup {RateLimitError(ra) : ra \in {Absent, Some(0), Some(30)}}
    \cup {PostGenerationError(r, u, st) : r \in {"OpenAI API error: rate limit", ""},
                                         u \in {None, "https://example.com/a"},
                                         st \in {None, "ru_ironic"}}
    \cup {ConfigurationError(prm, r) : prm \in {"OPENAI_API_KEY", "OPENAI_BASE_URL"},
                                      r \in {"missing", "placeholder"}}
    \cup {ForeignException(t, m) : t \in {"ValueError", "KeyError", "RuntimeError"},
                                  m \in {"", "api key sk-123", "/srv/app/config.py"}}

ErrorInit ==
    /\ exception = NoResult
    /\ error_dict = Absent

\* an exception reaches the code that presents errors
ExceptionCaught(e) ==
    /\ exception = NoResult
    /\ exception' = e
    /\ error_dict' = Absent

\* except SocialPostGeneratorException as e: error_dict = e.to_dict()
ToDict ==
    /\ exception # NoResult
    /\ IsTaxonomy(exception)
    /\ error_dict = Absent
    /\ error_dict' = Some(to_dict(exception))
    /\ UNCHANGED exception

\* error_dict = handle_exception(e)
HandleException ==
    /\ exception # NoResult
    /\ error_dict = Absent
    /\ error_dict' = Some(handle_exception(exception))
    /\ UNCHANGED exception

\* the mapping was sent
ErrorPresented ==
    /\ error_dict # Absent
    /\ exception' = NoResult
    /\ error_dict' = Absent

\* the state no error presentation touches
error_frame == <<client_vars, pipe_vars, thread_vars, server_vars, limiter_vars, repeat_vars>>

\* ========================================================= the rate limiter
\* the client addresses (request.client.host) that send requests
Keys == {"10.0.0.1", "10.0.0.2"}
\* settings.rate_limit_per_minute (default) and the window of rate_limiter
RATE_LIMIT_PER_MINUTE == 10
WINDOW_SECONDS == 60
\* SimpleRateLimiter(max_requests, window_seconds): limits a limiter may be
\* built with, small enough to follow every request of a window
LimiterMaxRequests == {1, 2}
LimiterWindows == {2, 3}

\* __init__: the limits are stored, self.requests = defaultdict(list)
LimiterInit(mr, w) ==
    /\ now = 0
    /\ max_requests = mr
    /\ window_seconds = w
    /\ limiter_requests = [k \in Keys |-> <<>>]
    /\ grants = [k \in Keys |-> <<>>]
    /\ verdict = Absent

\* [req_time for req_time in self.requests[key] if req_time > cutoff]
Recent(times, cutoff) == SelectSeq(times, LAMBDA t : t > cutoff)

\* is_allowed appending the request before it tests the limit
is_allowed_records_denied(key) ==
    LET kept == Append(Recent(limiter_requests[key], now - window_seconds), now)
    IN  [allowed |-> Len(kept) <= max_requests, requests |-> kept]

\* is_allowed(key): the answer, and self.requests[key] after the call
is_allowed(key) ==
    LET cutoff == now - window_seconds
        kept == Recent(limiter_requests[key], cutoff)
    IN  IF Len(kept) >= max_requests
        THEN [allowed |-> FALSE, requests |-> kept]
        ELSE [allowed |-> TRUE, requests |-> Append(kept, now)]

\* time passes
Tick ==
    /\ now < MaxTime
    /\ now' = now + 1
    /\ UNCHANGED <<max_requests, window_seconds, limiter_requests, grants, verdict>>

\* rate_limit_middleware for a request of client key: a path under /api/ is
\* put to the limiter and answered with 429 when denied; any other path passes
RateLimitMiddleware(key, api) ==
    /\ IF api
       THEN LET r == is_allowed(key)
            IN  /\ limiter_requests' = [limiter_requests EXCEPT ![key] = r.requests]
                /\ grants' = IF r.allowed
                             THEN [grants EXCEPT ![key] = Append(@, now)]
                             ELSE grants
                /\ verdict' = Some([key |-> key, checked |-> TRUE,
                                    status_code |-> IF r.allowed THEN 200 ELSE 429])
       ELSE /\ verdict' = Some([key |-> key, checked |-> FALSE, status_code |-> 200])
            /\ UNCHANGED <<limiter_requests, grants>>
    /\ UNCHANGED <<now, max_requests, window_seconds>>

\* the state the rate limiter does not touch
limiter_frame == <<client_vars, pipe_vars, thread_vars, server_vars, error_vars, repeat_vars>>

\* ============================================== the client under threads
\* generate_text called from several threads on the one client object (the
\* module keeps a single client, get_openai_client).  `self.x += n` is a read
\* of the attribute followed by a write; no lock is held between the two.
Threads == {1, 2}
\* max_retries of the threaded invocations
ThreadRetries == {0, 2}

ThreadIdle == [pc |-> "idle", max_retries |-> 0, attempt |-> 0, reg |-> 0, tokens |-> 0]

ThreadInit == threads = [t \in Threads |-> ThreadIdle]

\* thread t enters generate_text(..., max_retries = mr)
T_GenerateText(t, mr) ==
    /\ threads[t].pc = "idle"
    /\ threads' = [threads EXCEPT ![t] = [ThreadIdle EXCEPT !.pc = "loop", !.max_retries = mr]]
    /\ UNCHANGED <<total_requests, total_tokens, failed_requests>>

T_InLoop(t) == threads[t].pc = "loop" /\ threads[t].attempt < threads[t].max_retries

\* the call returned a response: next is `self.total_requests += 1`
T_CallSucceeds(t, usage) ==
    /\ T_InLoop(t)
    /\ threads' = [threads EXCEPT ![t].pc = "read_total_requests",
                                  ![t].tokens = IF usage = Absent THEN 0 ELSE usage[1]]
    /\ UNCHANGED <<total_requests, total_tokens, failed_requests>>

\* self.total_requests += 1: the read
T_ReadTotalRequests(t) ==
    /\ threads[t].pc = "read_total_requests"
    /\ threads' = [threads EXCEPT ![t].pc = "write_total_requests", ![t].reg = total_requests]
    /\ UNCHANGED <<total_requests, total_tokens, failed_requests>>

\* self.total_requests += 1: the write; then the usage is looked at
T_WriteTotalRequests(t) ==
    /\ threads[t].pc = "write_total_requests"
    /\ total_requests' = threads[t].reg + 1
    /\ threads' = [threads EXCEPT ![t].pc = IF threads[t].tokens # 0
                                            THEN "read_total_tokens" ELSE "returned"]
    /\ UNCHANGED <<total_tokens, failed_requests>>

\* self.total_tokens += tokens_used: the read
T_ReadTotalTokens(t) ==
    /\ threads[t].pc = "read_total_tokens"
    /\ threads' = [threads EXCEPT ![t].pc = "write_total_tokens", ![t].reg = total_tokens]
    /\ UNCHANGED <<total_requests, total_tokens, failed_requests>>

\* self.total_tokens += tokens_used: the write; then the text is returned
T_WriteTotalTokens(t) ==
    /\ threads[t].pc = "write_total_tokens"
    /\ total_tokens' = threads[t].reg + threads[t].tokens
    /\ threads' = [threads EXCEPT ![t].pc = "returned"]
    /\ UNCHANGED <<total_requests, failed_requests>>

\* except OpenAIRateLimitError / except APIError: next is
\* `self.failed_requests += 1`, then the raise
T_CallFailsForGood(t) ==
    /\ T_InLoop(t)
    /\ threads' = [threads EXCEPT ![t].pc = "read_failed_requests"]
    /\ UNCHANGED <<total_requests, total_tokens, failed_requests>>

\* the three retrying clauses: sleep when an attempt remains, else fail
T_CallFailsRetryable(t) ==
    /\ T_InLoop(t)
    /\ threads' = [threads EXCEPT ![t].pc =
                        IF threads[t].attempt < threads[t].max_retries - 1
                        THEN "sleeping" ELSE "read_failed_requests"]
    /\ UNCHANGED <<total_requests, total_tokens, failed_requests>>

\* time.sleep(delay) returns in thread t
T_SleepEnds(t) ==
    /\ threads[t].pc = "sleeping"
    /\ threads' = [threads EXCEPT ![t].pc = "loop", ![t].attempt = threads[t].attempt + 1]
    /\ UNCHANGED <<total_requests, total_tokens, failed_requests>>

\* after the loop: range(max_retries) is exhausted
T_Exhausted(t) ==
    /\ threads[t].pc = "loop"
    /\ threads[t].attempt >= threads[t].max_retries
    /\ threads' = [threads EXCEPT ![t].pc = "read_failed_requests"]
    /\ UNCHANGED <<total_requests, total_tokens, failed_requests>>

\* self.failed_requests += 1: the read
T_ReadFailedRequests(t) ==
    /\ threads[t].pc = "read_failed_requests"
    /\ threads' = [threads EXCEPT ![t].pc = "write_failed_requests", ![t].reg = failed_requests]
    /\ UNCHANGED <<total_requests, total_tokens, failed_requests>>

\* self.failed_requests += 1: the write; then the error is raised
T_WriteFailedRequests(t) ==
    /\ threads[t].pc = "write_failed_requests"
    /\ failed_requests' = threads[t].reg + 1
    /\ threads' = [threads EXCEPT ![t].pc = "raised"]
    /\ UNCHANGED <<total_requests, total_tokens>>

\* the variables of the client that threaded invocations do not touch
thread_frame == <<gt_pc, caller, max_retries, attempt, last_error, outcomes,
                  response, slept, gt_result, base, n_ok, n_fail, invocations,
                  stats, pipe_vars, server_vars, error_vars, limiter_vars, repeat_vars>>

\* ============================================================= the service
\* app.py: uvicorn.run("app:app") serves the application in one process on one
\* asyncio event loop.  The handler of POST /api/generate is a coroutine that
\* calls agent.generate_post(...) without awaiting anything, so from its first
\* line to its return statement it keeps the event loop's only thread.
\* requests, named in the order they arrive
Requests == {1, 2}

\* bodies that pass GeneratePostRequest: the url is stripped and starts with
\* http:// or https://, max_length is null or in [400, 4000], style is any
\* string or null
Bodies ==
    {[url |-> "https://example.com/a", style |-> s, max_length |-> Absent] :
        s \in {None, " Emotional ", "sarcastic"}}

NoBody == [url |-> None, style |-> None, max_length |-> Absent]

ServerInit ==
    /\ requests = [r \in Requests |-> [state |-> "none", body |-> NoBody]]
    /\ responses = [r \in Requests |-> Absent]

\* a client sends request r: it waits for its turn on the event loop
Arrive(r, body) ==
    /\ requests[r].state = "none"
    /\ \A q \in Requests : q < r => requests[q].state # "none"
    /\ requests' = [requests EXCEPT ![r] = [state |-> "pending", body |-> body]]
    /\ UNCHANGED <<responses, client_vars, pipe_vars>>

\* the event loop is running the handler of some request
LoopBusy == \E q \in Requests : requests[q].state = "running"

\* the event loop starts the handler of r, which calls agent.generate_post
Dispatch(r) ==
    /\ requests[r].state = "pending"
    /\ ~LoopBusy
    /\ requests' = [requests EXCEPT ![r].state = "running"]
    /\ EnterGeneratePost(requests[r].body.url, requests[r].body.style,
                         requests[r].body.max_length)
    /\ UNCHANGED <<responses, posts>>

\* the HTTP status the handler gives an error of the pipeline
StatusOf(e) ==
    CASE e.type = "URLValidationError" -> 422
      [] e.type \in {"URLFetchError", "TextExtractionError", "PostGenerationError"} -> 400
      [] OTHER -> 500

\* GeneratePostResponse(post, length, style = body.style or <default key>, url)
GeneratePostResponse(post, body) ==
    [success |-> TRUE, status_code |-> 200, post |-> post, length |-> Len(post),
     style |-> IF body.style \in {None, ""} THEN "ru_ironic" ELSE body.style,
     url |-> body.url]

\* JSONResponse(status_code, e.to_dict())
ErrorJSONResponse(e) ==
    [success |-> FALSE, status_code |-> StatusOf(e), content |-> to_dict(e)]

\* generate_post returned or raised: the handler builds its response
BuildResponse(r) ==
    /\ requests[r].state = "running"
    /\ pc \in {"returned", "failed"}
    /\ responses' = [responses EXCEPT ![r] =
            Some(IF pc = "returned"
                 THEN GeneratePostResponse(gp_result.post, requests[r].body)
                 ELSE ErrorJSONResponse(gp_result))]
    /\ pc' = "responded"
    /\ UNCHANGED <<requests, settings, url, style, max_length, post_max_length,
                   html, text, system_prompt, user_prompt, generated, gp_result,
                   steps, gp_base, posts, client_vars>>

\* the handler returns the response, which is sent and dropped: the event
\* loop is free again
HandlerReturns(r) ==
    /\ requests[r].state = "running"
    /\ pc = "responded"
    /\ requests' = [requests EXCEPT ![r].state = "done"]
    /\ responses' = [responses EXCEPT ![r] = Absent]
    /\ pc' = "idle"
    /\ url' = None
    /\ style' = None
    /\ max_length' = Absent
    /\ FreshLocals
    /\ gp_result' = NoResult
    /\ steps' = <<>>
    /\ gp_base' = Counters
    /\ UNCHANGED <<settings, posts, client_vars>>

\* ------------------------------------------------------- the specifications
Init ==
    /\ ClientInit /\ PipeInit /\ ThreadInit /\ ServerInit /\ ErrorInit /\ RepeatInit
    /\ LimiterInit(RATE_LIMIT_PER_MINUTE, WINDOW_SECONDS)

\* what a caller of the client does: generate_text, get_statistics
ClientNext ==
    \/ \E mr \in -1..MaxRetriesArg : GenerateText(mr) /\ UNCHANGED pipe_vars
    \/ DirectCallEnds /\ UNCHANGED pipe_vars
    \/ GetStatistics /\ UNCHANGED pipe_vars

\* one loop iteration of a running generate_text invocation
GenerateTextNext ==
    \/ Attempt /\ UNCHANGED pipe_vars
    \/ SleepEnds /\ UNCHANGED pipe_vars
    \/ Exhausted /\ UNCHANGED pipe_vars

\* what the pipeline does
PipelineNext ==
    \/ \E i \in PostInputs : GeneratePost(i[1], i[2], i[3])
    \/ ValidateUrl
    \/ ValidateStyle
    \/ ClampLength
    \/ \E o \in FetchOutcomes : FetchHtml(o)
    \/ ExtractText
    \/ ValidateTextLength
    \/ RenderPrompts
    \/ CallGenerateText
    \/ GenerateTextReturns
    \/ GenerateTextRaises
    \/ EnforceAndReturn
    \/ PostCallEnds

\* the client under direct calls
Next == (ClientNext \/ GenerateTextNext) /\ UNCHANGED <<thread_vars, server_vars, error_vars, limiter_vars, repeat_vars>>
Spec == Init /\ [][Next]_vars

\* a running invocation goes on: the upstream call returns or raises, a
\* sleep ends, and the code after the loop runs
LiveSpec ==
    Spec /\ WF_vars(GenerateTextNext /\ UNCHANGED <<thread_vars, server_vars, error_vars, limiter_vars, repeat_vars>>)

\* the pipeline, with the client it calls; the fall-through after the loop
\* (Exhausted) needs max_retries <= 0, which generate_post never passes
PipeNext ==
    \/ PipelineNext /\ UNCHANGED <<thread_vars, server_vars, error_vars, limiter_vars, repeat_vars>>
    \/ Attempt /\ UNCHANGED <<pipe_vars, thread_vars, server_vars, error_vars, limiter_vars, repeat_vars>>
    \/ SleepEnds /\ UNCHANGED <<pipe_vars, thread_vars, server_vars, error_vars, limiter_vars, repeat_vars>>
PipeSpec == Init /\ [][PipeNext]_vars

\* the agent called again and again; what an invocation does is as in
\* PipeNext, with fewer pages and completions
RepeatSteps ==
    \/ ValidateUrl
    \/ ValidateStyle
    \/ ClampLength
    \/ \E o \in RepeatOutcomes : FetchHtml(o)
    \/ ExtractText
    \/ ValidateTextLength
    \/ RenderPrompts
    \/ CallGenerateText
    \/ GenerateTextReturns
    \/ GenerateTextRaises
    \/ EnforceAndReturn
repeat_frame == <<thread_vars, server_vars, error_vars, limiter_vars>>
RepeatNext ==
    \/ (\E i \in RepeatInputs : Invoke(i[1], i[2], i[3])) /\ UNCHANGED repeat_frame
    \/ RepeatSteps /\ UNCHANGED <<repeat_frame, repeat_vars>>
    \/ (\E c \in RepeatTexts, u \in Usages : CallSucceeds(c, u))
            /\ UNCHANGED <<pipe_vars, repeat_frame, repeat_vars>>
    \/ CallAPIError /\ UNCHANGED <<pipe_vars, repeat_frame, repeat_vars>>
    \/ InvocationEnds /\ UNCHANGED repeat_frame
RepeatSpec == Init /\ [][RepeatNext]_vars

\* the steps of the generate_post invocation a handler is running
HandlerSteps ==
    \/ ValidateUrl
    \/ ValidateStyle
    \/ ClampLength
    \/ \E o \in FetchOutcomes : FetchHtml(o)
    \/ ExtractText
    \/ ValidateTextLength
    \/ RenderPrompts
    \/ CallGenerateText
    \/ GenerateTextReturns
    \/ GenerateTextRaises
    \/ EnforceAndReturn

\* the service: requests arrive at any time, the event loop runs one handler
\* at a time
ServerNext ==
    \/ (\E r \in Requests, b \in Bodies : Arrive(r, b)) /\ UNCHANGED <<thread_vars, error_vars, limiter_vars, repeat_vars>>
    \/ (\E r \in Requests : Dispatch(r)) /\ UNCHANGED <<thread_vars, error_vars, limiter_vars, repeat_vars>>
    \/ HandlerSteps /\ UNCHANGED <<thread_vars, server_vars, error_vars, limiter_vars, repeat_vars>>
    \/ Attempt /\ UNCHANGED <<pipe_vars, thread_vars, server_vars, error_vars, limiter_vars, repeat_vars>>
    \/ SleepEnds /\ UNCHANGED <<pipe_vars, thread_vars, server_vars, error_vars, limiter_vars, repeat_vars>>
    \/ (\E r \in Requests : BuildResponse(r)) /\ UNCHANGED <<thread_vars, error_vars, limiter_vars, repeat_vars>>
    \/ (\E r \in Requests : HandlerReturns(r)) /\ UNCHANGED <<thread_vars, error_vars, limiter_vars, repeat_vars>>
ServerSpec == Init /\ [][ServerNext]_vars

\* the client called from threads
ThreadNext ==
    \/ (\E t \in Threads, mr \in ThreadRetries : T_GenerateText(t, mr)) /\ UNCHANGED thread_frame
    \/ (\E t \in Threads, u \in Usages : T_CallSucceeds(t, u)) /\ UNCHANGED thread_frame
    \/ (\E t \in Threads : T_ReadTotalRequests(t)) /\ UNCHANGED thread_frame
    \/ (\E t \in Threads : T_WriteTotalRequests(t)) /\ UNCHANGED thread_frame
    \/ (\E t \in Threads : T_ReadTotalTokens(t)) /\ UNCHANGED thread_frame
    \/ (\E t \in Threads : T_WriteTotalTokens(t)) /\ UNCHANGED thread_frame
    \/ (\E t \in Threads : T_CallFailsForGood(t)) /\ UNCHANGED thread_frame
    \/ (\E t \in Threads : T_CallFailsRetryable(t)) /\ UNCHANGED thread_frame
    \/ (\E t \in Threads : T_SleepEnds(t)) /\ UNCHANGED thread_frame
    \/ (\E t \in Threads : T_Exhausted(t)) /\ UNCHANGED thread_frame
    \/ (\E t \in Threads : T_ReadFailedRequests(t)) /\ UNCHANGED thread_frame
    \/ (\E t \in Threads : T_WriteFailedRequests(t)) /\ UNCHANGED thread_frame
ThreadSpec == Init /\ [][ThreadNext]_vars

\* errors being presented to callers
ErrorNext ==
    \/ (\E e \in Exceptions : ExceptionCaught(e)) /\ UNCHANGED error_frame
    \/ ToDict /\ UNCHANGED error_frame
    \/ HandleException /\ UNCHANGED error_frame
    \/ ErrorPresented /\ UNCHANGED error_frame
ErrorSpec == Init /\ [][ErrorNext]_vars

\* requests arriving at the rate limiter while time passes
LimiterNext ==
    \/ Tick /\ UNCHANGED limiter_frame
    \/ (\E k \in Keys, api \in BOOLEAN : RateLimitMiddleware(k, api))
            /\ UNCHANGED limiter_frame
\* the service with a limiter of small limits
LimiterBuilt ==
    /\ ClientInit /\ PipeInit /\ ThreadInit /\ ServerInit /\ ErrorInit /\ RepeatInit
    /\ \E mr \in LimiterMaxRequests, w \in LimiterWindows : LimiterInit(mr, w)
LimiterSpec == LimiterBuilt /\ [][LimiterNext]_vars

\* ==================================================================== claims
Last(s) == s[Len(s)]
Kinds(s) == {s[i].kind : i \in 1..Len(s)}

\* t is raw without its leading and trailing whitespace
IsTrimOf(t, raw) ==
    /\ t # <<>> => (t[1] \notin Whitespace /\ t[Len(t)] \notin Whitespace)
    /\ \E lo \in 1..(Len(raw) + 1) :
        /\ lo + Len(t) - 1 <= Len(raw)
        /\ \A i \in 1..(lo - 1) : raw[i] \in Whitespace
        /\ \A i \in (lo + Len(t))..Len(raw) : raw[i] \in Whitespace
        /\ \A i \in 1..Len(t) : t[i] = raw[lo + i - 1]

\* C1: a rate-limit response on any attempt of generate_text is the last
\* upstream call of the invocation: the invocation has raised RateLimitError
\* (RATE_LIMIT_ERROR), failed_requests is one more than at its start, and the
\* only sleeps taken are those of the retried failures before it.
C1_RateLimitEndsInvocation ==
    \A i \in 1..Len(outcomes) :
        outcomes[i].kind = "rate_limit" =>
            /\ i = Len(outcomes)
            /\ gt_pc = "raised"
            /\ gt_result.type = "RateLimitError"
            /\ gt_result.code = "RATE_LIMIT_ERROR"
            /\ failed_requests = base.failed_requests + 1
            /\ Len(slept) = i - 1

C1_Witness ==
    /\ gt_pc = "raised"
    /\ Len(outcomes) = 3
    /\ outcomes[1].kind = "timeout"
    /\ outcomes[2].kind = "connection"
    /\ outcomes[3].kind = "rate_limit"

Retryable == {"timeout", "connection", "unexpected"}

\* C2: with max_retries = n >= 1, an invocation never makes more than n
\* upstream calls, and one whose calls all ended in a retryable failure has
\* raised only after exactly n calls, with OpenAIError (OPENAI_ERROR) whose
\* retry_count is n and whose api error is the error of the last call.
C2_ExhaustionAfterNCalls ==
    max_retries >= 1 =>
        /\ Len(outcomes) <= max_retries
        /\ (gt_pc = "raised" /\ Kinds(outcomes) \subseteq Retryable) =>
               /\ Len(outcomes) = max_retries
               /\ gt_result.type = "OpenAIError"
               /\ gt_result.code = "OPENAI_ERROR"
               /\ gt_result.retry_count = max_retries
               /\ gt_result.api_error_type = Last(outcomes).error

C2_Witness ==
    /\ gt_pc = "raised"
    /\ max_retries = 3
    /\ Len(outcomes) = 3
    /\ outcomes[1].kind = "timeout"
    /\ outcomes[2].kind = "unexpected"
    /\ outcomes[3].kind = "connection"

\* C3: when the calls before the successful one all failed with timeouts or
\* connection failures, the invocation returns the successful response's
\* text without its surrounding whitespace, and failed_requests is what it
\* was when the invocation started.
C3_SuccessAfterRetries ==
    (/\ gt_pc = "returned"
     /\ \A i \in 1..(Len(outcomes) - 1) : outcomes[i].kind \in {"timeout", "connection"})
    => /\ Len(outcomes) <= max_retries
       /\ Last(outcomes).kind = "ok"
       /\ gt_result.kind = "return"
       /\ IsTrimOf(gt_result.text, response)
       /\ failed_requests = base.failed_requests

C3_Witness ==
    /\ gt_pc = "returned"
    /\ Len(outcomes) = 3
    /\ outcomes[1].kind = "timeout"
    /\ outcomes[2].kind = "timeout"
    /\ gt_result.text # response

\* C4: an invocation that has raised left failed_requests exactly one above
\* its value at the start of the invocation, whatever the path and the number
\* of attempts; one that has returned text left it unchanged.
C4_OneFailurePerInvocation ==
    /\ gt_pc = "raised" => failed_requests = base.failed_requests + 1
    /\ gt_pc = "returned" => failed_requests = base.failed_requests

C4_Witness ==
    /\ gt_pc = "raised"
    /\ max_retries <= 0
    /\ outcomes = <<>>
    /\ base.failed_requests = 1

\* C5: the success rate reported by get_statistics is the share of the
\* invocations that returned text among all finished invocations, in percent
\* rounded to 2 decimals, and 0 when there was none.
C5_SuccessRateIsShareOfSuccesses ==
    stats # Absent =>
        stats[1].success_rate_x100 =
            IF n_ok + n_fail = 0 THEN 0
            ELSE RoundHalfEven(n_ok * 10000, n_ok + n_fail)

\* C6: the post returned by generate_post is never longer than the effective
\* maximum post_max_length.
C6_PostWithinMaximum ==
    pc = "returned" => Len(gp_result.post) <= post_max_length

\* C7: when the trimmed generated text is longer than the effective maximum,
\* the returned post is a prefix of that text followed by "...", and the
\* character of the text right after the prefix is a space.
C7_TruncationAtWordBoundary ==
    (pc = "returned" /\ Len(Strip(generated)) > post_max_length) =>
        LET g == Strip(generated)
            p == gp_result.post
            k == Len(p) - 3
        IN  /\ k >= 0
            /\ SubSeq(p, k + 1, k + 3) = Ellipsis
            /\ k < Len(g)
            /\ SubSeq(p, 1, k) = SubSeq(g, 1, k)
            /\ g[k + 1] = SPACE

StepNames(s) == [i \in 1..Len(s) |-> s[i].step]
HasRun(name) == \E i \in 1..Len(steps) : steps[i].step = name

\* C8: once the clamp step has run, post_max_length is 400 for a requested
\* max_length below 400, 4000 for one above 4000, the requested value for one
\* in [400, 4000], and the configured default when max_length is absent.
C8_EffectiveMaximum ==
    HasRun("clamp") =>
        post_max_length =
            IF max_length = Absent THEN settings.max_post_length
            ELSE IF max_length[1] < 400 THEN 400
            ELSE IF max_length[1] > 4000 THEN 4000
            ELSE max_length[1]

\* C9: right after the minimum-length check of an extracted text shorter than
\* the configured minimum, generate_post has failed with TextExtractionError
\* (TEXT_EXTRACTION_ERROR), generate_text was not entered and the three
\* counters are what they were when generate_post started; after the check of
\* a text of the minimum length or more, the pipeline goes on.
C9_ShortTextStopsBeforeGeneration ==
    (steps # <<>> /\ Last(steps).step = "validate_text_length") =>
        IF Len(text) < settings.min_text_length
        THEN /\ pc = "failed"
             /\ gp_result.type = "TextExtractionError"
             /\ gp_result.code = "TEXT_EXTRACTION_ERROR"
             /\ ~HasRun("generate_text")
             /\ gt_pc = "idle"
             /\ Counters = gp_base
        ELSE pc = "render_prompts"

C9_Witness ==
    /\ pc = "failed"
    /\ Last(steps).step = "validate_text_length"
    /\ Len(text) = settings.min_text_length - 1

StepOrder ==
    <<"validate_url", "validate_style", "clamp", "fetch_html", "extract_text",
      "validate_text_length", "render_prompts", "generate_text", "enforce_length">>

\* the error a failure of the step leaves generate_post with
StepError(name) ==
    CASE name = "validate_url" -> "URLValidationError"
      [] name = "fetch_html" -> "URLFetchError"
      [] name \in {"extract_text", "validate_text_length"} -> "TextExtractionError"
      [] name = "generate_text" -> "PostGenerationError"
      [] OTHER -> "no error"

\* C10: the steps an invocation of generate_post has run are an initial part
\* of the fixed order, each once; a step that raised is the last one run and
\* the invocation has failed with that step's error; an invocation that
\* returned a post ran all nine steps without a failure; generate_text runs
\* only inside the generation step.
C10_StepsInOrder ==
    /\ Len(steps) <= Len(StepOrder)
    /\ StepNames(steps) = SubSeq(StepOrder, 1, Len(steps))
    /\ \A i \in 1..Len(steps) :
          steps[i].failed =>
            /\ i = Len(steps)
            /\ pc = "failed"
            /\ gp_result.kind = "raise"
            /\ gp_result.type = StepError(steps[i].step)
    /\ pc = "failed" => (steps # <<>> /\ Last(steps).failed)
    /\ pc = "returned" =>
          /\ StepNames(steps) = StepOrder
          /\ gp_result.kind = "return"
    /\ gt_pc # "idle" => (pc = "generating" /\ Last(steps).step = "generate_text")

C10_Witness ==
    /\ pc = "failed"
    /\ Len(steps) = 4
    /\ gp_result.type = "URLFetchError"

\* C11: whenever generate_text has raised inside generate_post, whatever the
\* error, the step that takes it leaves generate_post failed with
\* PostGenerationError (POST_GENERATION_ERROR) whose details hold the message
\* of that error as reason, the normalized url and the resolved style key;
\* and generate_post never fails with RATE_LIMIT_ERROR or OPENAI_ERROR.
C11_ClientFailureIsWrapped ==
    /\ [][(pc = "generating" /\ gt_pc = "raised") =>
            /\ pc' = "failed"
            /\ gp_result'.kind = "raise"
            /\ gp_result'.type = "PostGenerationError"
            /\ gp_result'.code = "POST_GENERATION_ERROR"
            /\ gp_result'.details.reason = StrOfOpenAIError(gt_result)
            /\ gp_result'.details.url = url
            /\ validate_url(url) = Returns(url)
            /\ gp_result'.details.style = style
            /\ style \in DOMAIN STYLES]_vars
    /\ [](gp_result.kind = "raise" =>
            gp_result.code \notin {"RATE_LIMIT_ERROR", "OPENAI_ERROR"})

C11_Witness ==
    /\ pc = "failed"
    /\ Last(steps).step = "generate_text"
    /\ gp_result.type = "PostGenerationError"
    /\ gp_result.details.reason = StrOfOpenAIError(RateLimitError(Some(30)))
    /\ gp_result.details.style = "ru_emotional"

RECURSIVE Sum(_)
Sum(s) == IF s = <<>> THEN 0 ELSE s[1] + Sum(Tail(s))

\* C14: the i-th sleep of an invocation follows a retryable failure on the
\* zero-based attempt i - 1 and lasts 2^(i-1) seconds; a sleep is taken after
\* every retryable failure on an attempt that is not the last one and after
\* nothing else, so an invocation that exhausted n >= 1 attempts slept
\* 2^(n-1) - 1 seconds in total.
C14_ExponentialBackoff ==
    /\ \A i \in 1..Len(slept) :
          /\ i <= Len(outcomes)
          /\ outcomes[i].kind \in Retryable
          /\ slept[i] = 2 ^ (i - 1)
    /\ Len(slept) = Cardinality({i \in 1..Len(outcomes) :
                        outcomes[i].kind \in Retryable /\ i < max_retries})
    /\ (/\ gt_pc = "raised"
        /\ max_retries >= 1
        /\ Len(outcomes) = max_retries
        /\ Kinds(outcomes) \subseteq Retryable)
       => Sum(slept) = 2 ^ (max_retries - 1) - 1

C14_Witness ==
    /\ gt_pc = "raised"
    /\ max_retries = 3
    /\ Len(outcomes) = 3
    /\ Kinds(outcomes) \subseteq Retryable
    /\ slept = <<1, 2>>

\* C15: a generic API error on any attempt of generate_text is the last
\* upstream call of the invocation: the invocation has raised OpenAIError
\* (OPENAI_ERROR) whose retry_count is the number of upstream calls made, and
\* the only sleeps taken are those of the retried failures before it.
C15_APIErrorEndsInvocation ==
    \A i \in 1..Len(outcomes) :
        outcomes[i].kind = "api_error" =>
            /\ i = Len(outcomes)
            /\ gt_pc = "raised"
            /\ gt_result.type = "OpenAIError"
            /\ gt_result.code = "OPENAI_ERROR"
            /\ gt_result.retry_count = Len(outcomes)
            /\ Len(slept) = i - 1

C15_Witness ==
    /\ gt_pc = "raised"
    /\ max_retries = 3
    /\ Len(outcomes) = 2
    /\ outcomes[1].kind = "timeout"
    /\ outcomes[2].kind = "api_error"
    /\ gt_result.retry_count = 2

\* C16: an invocation that has returned text left total_requests exactly one
\* above its value at the start of the invocation, whatever the number of
\* attempts, and total_tokens above its value at the start by the usage the
\* successful response reported, or where it was when none was reported.
C16_OneRequestPerSuccess ==
    gt_pc = "returned" =>
        /\ total_requests = base.total_requests + 1
        /\ total_tokens = base.total_tokens +
              (IF Last(outcomes).usage = Absent THEN 0 ELSE Last(outcomes).usage[1])

C16_Witness ==
    /\ gt_pc = "returned"
    /\ Len(outcomes) = 3
    /\ Last(outcomes).usage = Some(7)
    /\ base.total_requests = 1
    /\ base.total_tokens = 7

\* the lowercased, trimmed characters of a style argument; none when absent
Normalized(s) == IF s = None THEN <<>> ELSE Strip(Lower(StyleChars(s)))

\* C17: the style step of generate_post never fails and leaves a key of the
\* style table: the key equal to the lowercased, trimmed argument when there
\* is one, else the key of the style whose id equals it when there is one,
\* else the default style (as for an empty, blank or absent argument).
C17_StyleAlwaysResolves ==
    [][pc = "validate_style" =>
        /\ pc' = "clamp"
        /\ gp_result' = NoResult
        /\ style' \in DOMAIN STYLES
        /\ LET n == Normalized(style)
               byKey == \E k \in DOMAIN STYLES : KeyChars(k) = n
               byId == \E k \in DOMAIN STYLES : IdChars(k) = n
           IN  /\ byKey => KeyChars(style') = n
               /\ (~byKey /\ byId) => IdChars(style') = n
               /\ (~byKey /\ ~byId) => style' = DEFAULT_STYLE]_vars

\* only a padded id in another case or a padded key in capitals resolves to
\* this key
C17_Witness ==
    /\ pc = "clamp"
    /\ style = "ru_emotional"

\* the url argument is empty or blank, or (trimmed) has a scheme other than
\* http and https, or no host
Unusable(u) ==
    \/ u = None
    \/ UrlStrip(u) = ""
    \/ UrlScheme(UrlStrip(u)) \notin {"http", "https"}
    \/ UrlNetloc(UrlStrip(u)) = ""

\* C19: the url step of generate_post, given an empty or blank url, a url
\* whose scheme is not http or https or a url without host, fails with
\* URLValidationError (VALIDATION_ERROR) and returns nothing; an invocation
\* that failed so has fetched no page, and a page is fetched only for a url
\* with scheme http or https and a host.
C19_UnusableUrlIsRejected ==
    /\ [][(pc = "validate_url" /\ Unusable(url)) =>
            /\ pc' = "failed"
            /\ gp_result'.kind = "raise"
            /\ gp_result'.type = "URLValidationError"
            /\ gp_result'.code = "VALIDATION_ERROR"]_vars
    /\ []((pc = "failed" /\ gp_result.type = "URLValidationError") =>
            (~HasRun("fetch_html") /\ html = None /\ Len(steps) = 1))
    /\ [](HasRun("fetch_html") => ~Unusable(url))

C19_Witness ==
    /\ pc = "failed"
    /\ gp_result.type = "URLValidationError"
    /\ gp_result.details.url = "ftp://example.com/f"

\* the reason the claim derives from an error status
ReasonOfStatus(st) ==
    CASE st = 404 -> "not found (404)"
      [] st = 403 -> "forbidden (403)"
      [] st = 500 -> "server error (500)"
      [] OTHER -> "HTTP error " \o ToString(st)

\* the page server answered with an error status (and no oversized or
\* unreadable content-length header)
AnsweredWithErrorStatus(o) ==
    /\ o.exc = None
    /\ o.status >= 400
    /\ o.content_length = NoHeader

\* C20: a fetch step in which the page server answered with an error status
\* fails with URLFetchError (URL_FETCH_ERROR) whose reason is the one derived
\* from that status and whose details carry the status code.
C20_ErrorStatusIsReported ==
    [][\A o \in FetchOutcomes :
          (AnsweredWithErrorStatus(o) /\ FetchHtml(o)) =>
              /\ pc' = "failed"
              /\ gp_result'.type = "URLFetchError"
              /\ gp_result'.code = "URL_FETCH_ERROR"
              /\ gp_result'.details.reason = ReasonOfStatus(o.status)
              /\ gp_result'.details.status_code = Some(o.status)]_vars

\* the response carries a numeric content-length header above the maximum
Oversized(o) ==
    /\ o.exc = None
    /\ o.content_length.present
    /\ o.content_length.numeric
    /\ o.content_length.value > settings.max_page_size

\* the response has a good status and its content-length header is absent
\* or at most the maximum
GoodAndWithinSize(o) ==
    /\ o.exc = None
    /\ o.status < 400
    /\ \/ o.content_length = NoHeader
       \/ /\ o.content_length.present
          /\ o.content_length.numeric
          /\ o.content_length.value <= settings.max_page_size

\* the code of each class of the taxonomy
KindCode(type) ==
    CASE type = "URLValidationError" -> "VALIDATION_ERROR"
      [] type = "URLFetchError" -> "URL_FETCH_ERROR"
      [] type = "TextExtractionError" -> "TEXT_EXTRACTION_ERROR"
      [] type = "PostGenerationError" -> "POST_GENERATION_ERROR"
      [] type = "OpenAIError" -> "OPENAI_ERROR"
      [] type = "RateLimitError" -> "RATE_LIMIT_ERROR"
      [] type = "ConfigurationError" -> "CONFIGURATION_ERROR"

FixedKeys == {"success", "error", "error_code"}

\* C23: the mapping made of an error of the taxonomy has success false, the
\* user-facing message as error and the code of the error's kind as
\* error_code, and no key of the details is one of these three keys.
C23_ToDictKeepsFixedKeys ==
    (exception # NoResult /\ IsTaxonomy(exception) /\ error_dict # Absent) =>
        LET d == error_dict[1]
        IN  /\ FixedKeys \subseteq DOMAIN d
            /\ d.success = FALSE
            /\ d.error = UserMessage(exception)
            /\ d.error_code = KindCode(exception.type)
            /\ DOMAIN Details(exception) \cap FixedKeys = {}
            /\ \A k \in DOMAIN Details(exception) : d[k] = Details(exception)[k]

\* an error with optional details was presented
C23_Witness ==
    /\ exception # NoResult /\ error_dict # Absent
    /\ exception.type = "URLFetchError"
    /\ DOMAIN error_dict[1] = FixedKeys \cup {"url", "status_code", "reason"}
    /\ error_dict[1].status_code = 404

\* C24: the mapping made of an exception outside the taxonomy is exactly
\* the generic one (success false, the fixed generic message, INTERNAL_ERROR,
\* no other key), so that two such exceptions of different types and texts
\* get the same mapping.
C24_ForeignExceptionsLookAlike ==
    /\ (exception # NoResult /\ ~IsTaxonomy(exception) /\ error_dict # Absent) =>
            LET d == error_dict[1]
            IN  /\ DOMAIN d = FixedKeys
                /\ d.success = FALSE
                /\ d.error = "user message: unexpected error"
                /\ d.error_code = "INTERNAL_ERROR"
    /\ \A e1, e2 \in {e \in Exceptions : ~IsTaxonomy(e)} :
            handle_exception(e1) = handle_exception(e2)

\* an exception whose text holds a secret was presented
C24_Witness ==
    /\ exception # NoResult /\ error_dict # Absent
    /\ exception.type = "KeyError"
    /\ exception.message = "api key sk-123"

\* C26: the user prompt is the style's template with the length phrase
\* rewritten to the effective maximum, followed by the page text (cut to the
\* prompt budget) exactly as it was extracted: the rewrite touches the
\* template's phrase only.
C26_PageTextIsInsertedUnchanged ==
    HasRun("render_prompts") =>
        user_prompt = Replace(TemplateHead(style), Phrase(800), Phrase(post_max_length))
                        \o text

\* C27: a post that generate_post returns is never empty, whatever the
\* completion held.
C27_ReturnedPostIsNotEmpty ==
    pc = "returned" => Len(gp_result.post) > 0

\* C28: at every moment failed_requests <= total_requests, and the success
\* rate get_statistics reports lies between 0 and 100.
C28_CountersAndRateInRange ==
    /\ failed_requests <= total_requests
    /\ stats # Absent =>
            /\ stats[1].failed_requests <= stats[1].total_requests
            /\ stats[1].success_rate_x100 \in 0..10000

\* C29: an invocation of generate_text makes at most max_retries upstream
\* calls (none when max_retries is 0 or less), it ends, and it ends by
\* returning text or by raising OpenAIError or RateLimitError, nothing else.
C29_InvocationEndsWrapped ==
    /\ [](Len(outcomes) <= IF max_retries > 0 THEN max_retries ELSE 0)
    /\ [](gt_pc = "returned" => gt_result.kind = "return")
    /\ [](gt_pc = "raised" =>
            /\ gt_result.kind = "raise"
            /\ gt_result.type \in {"OpenAIError", "RateLimitError"})
    /\ (gt_pc \in {"loop", "sleeping"}) ~> (gt_pc \in {"returned", "raised"})

\* every allowed call raised something unexpected: the invocation ended with
\* OpenAIError after max_retries calls
C29_Witness ==
    /\ gt_pc = "raised"
    /\ max_retries = 3
    /\ Len(outcomes) = 3
    /\ \A i \in 1..3 : outcomes[i].kind = "unexpected"
    /\ gt_result.type = "OpenAIError"

\* the requests of key that is_allowed granted at a time in (t - w, t]
GrantedIn(key, t) ==
    {i \in 1..Len(grants[key]) : grants[key][i] > t - window_seconds /\ grants[key][i] <= t}

\* the recorded requests of key that still count at the present time
Counting(times) == Recent(times, now - window_seconds)

\* C30: for every key, is_allowed grants at most max_requests requests in any
\* window of window_seconds; a denied request is not recorded, so the
\* requests that count against the key are the same after it; and a request
\* of one key changes nothing that is kept for another key.
C30_SlidingWindowPerKey ==
    /\ [](\A k \in Keys, t \in 0..now : Cardinality(GrantedIn(k, t)) <= max_requests)
    /\ [][\A k \in Keys :
            (RateLimitMiddleware(k, TRUE) /\ verdict'[1].status_code = 429) =>
                /\ Counting(limiter_requests[k])' = Counting(limiter_requests[k])
                /\ grants' = grants]_vars
    /\ [][\A k \in Keys, api \in BOOLEAN :
            RateLimitMiddleware(k, api) =>
                \A j \in Keys \ {k} :
                    /\ limiter_requests'[j] = limiter_requests[j]
                    /\ grants'[j] = grants[j]
                    /\ is_allowed(j)' = is_allowed(j)]_vars

\* a key was granted a third request after its window had passed and was
\* then denied, while the other key was served
C30_Witness ==
    /\ verdict # Absent
    /\ verdict[1].status_code = 429
    /\ max_requests = 2
    /\ Len(grants[verdict[1].key]) = 3
    /\ \E j \in Keys \ {verdict[1].key} : Len(grants[j]) > 0

C21_OversizeIsRejectedUnread ==
    [][\A o \in FetchOutcomes :
          /\ (Oversized(o) /\ FetchHtml(o)) =>
                /\ pc' = "failed"
                /\ gp_result'.type = "URLFetchError"
                /\ gp_result'.code = "URL_FETCH_ERROR"
                /\ html' = None
          /\ (GoodAndWithinSize(o) /\ FetchHtml(o)) =>
                /\ pc' = "extract_text"
                /\ gp_result' = NoResult
                /\ html' = o.body]_vars

\* an oversized response has been rejected for its size
C21_Witness ==
    /\ pc = "failed"
    /\ Last(steps).step = "fetch_html"
    /\ gp_result.details.reason = "str(URLFetchError: page too large)"

\* requests.get raised, or the response is oversized, has an unreadable
\* content-length header or an error status
FetchFails(o) ==
    \/ o.exc # None
    \/ Oversized(o)
    \/ (o.content_length.present /\ ~o.content_length.numeric)
    \/ o.status >= 400

\* C22: an invocation makes at most one page request, and the fetch step is
\* entered with none made; a fetch step whose request failed in any way
\* (timeout, connection failure, too many redirects, another exception, an
\* error status, an oversized or unreadable content-length) ends the fetch
\* with URLFetchError (URL_FETCH_ERROR) and with no other error.
C22_OneRequestOneErrorType ==
    /\ [](Cardinality({i \in 1..Len(steps) : steps[i].step = "fetch_html"}) <= 1)
    /\ [](pc = "fetch_html" => ~HasRun("fetch_html"))
    /\ [][\A o \in FetchOutcomes :
            (FetchFails(o) /\ FetchHtml(o)) =>
                /\ pc' = "failed"
                /\ gp_result'.kind = "raise"
                /\ gp_result'.type = "URLFetchError"
                /\ gp_result'.code = "URL_FETCH_ERROR"]_vars

\* the request whose content-length header is no number has failed
C22_Witness ==
    /\ pc = "failed"
    /\ Last(steps).step = "fetch_html"
    /\ gp_result.type = "URLFetchError"
    /\ gp_result.details.reason = "str(ValueError)"

\* the threaded invocations that ended in the given way
Finished(how) == {t \in Threads : threads[t].pc = how}

\* C12: when every thread's generate_text invocation on the shared client has
\* finished, total_requests is the number of invocations that returned text
\* and failed_requests the number that raised, whatever the interleaving.
C12_NoStatisticsUpdateLost ==
    (\A t \in Threads : threads[t].pc \in {"returned", "raised"}) =>
        /\ total_requests = Cardinality(Finished("returned"))
        /\ failed_requests = Cardinality(Finished("raised"))

\* C13: while the generate_text invocation of one request's handler is in a
\* backoff sleep, every other request that has arrived and waits can be
\* started by the service.
C13_SleepDoesNotBlockOtherRequests ==
    \A r \in Requests, q \in Requests :
        (/\ requests[r].state = "running"
         /\ gt_pc = "sleeping"
         /\ requests[q].state = "pending")
        => ENABLED Dispatch(q)

\* C18: the successful response a handler has built reports as its style the
\* key that validate_style resolved for the request and whose prompts were
\* used for the generation.
C18_ResponseReportsResolvedStyle ==
    \A r \in Requests :
        (/\ requests[r].state = "running"
         /\ pc = "responded"
         /\ responses[r] # Absent
         /\ responses[r][1].success)
        => /\ responses[r][1].style = style
           /\ system_prompt = STYLES[responses[r][1].style]
====
